---- MODULE Spec2Model ----
(***************************************************************************)
(* Sejong City Library scraper (Google Apps Script).                       *)
(*                                                                         *)
(* The module models                                                       *)
(*   - the Result type (Success / Failure) of src/src/Code.js,             *)
(*   - the Result pipeline main() of src/src/Code.js: client construction, *)
(*     KST time-window gate, fetch, status validation, extraction, store   *)
(*     location and save,                                                  *)
(*   - the archival entry point saveHtmlToDriveInFolder(),                 *)
(*   - the extractor, the store functions and the folder processing       *)
(*     main() of src/src/parseHtml.js.                                     *)
(*                                                                         *)
(* A backend call that may raise is an input of the function that makes    *)
(* it: the function is told which call raises, if any.                     *)
(*                                                                         *)
(* Specifications:                                                         *)
(*   Spec        the two entry points run one after the other, each step   *)
(*               of an invocation being one action;                        *)
(*   SpecResult  bind / map applied to arbitrary Results and arbitrary     *)
(*               caller-supplied functions;                                *)
(*   SpecExtract Complexity.fromResponse applied to arbitrary documents;   *)
(*   SpecFixture both extractors applied to pages of N floor blocks with   *)
(*               M pins each;                                              *)
(*   SpecStore   the store functions of both scripts applied in any order, *)
(*               each to the spreadsheet of its script, any one backend    *)
(*               call raising;                                             *)
(*   SpecName    a file named by the archival script, its name parsed by   *)
(*               the folder script;                                        *)
(*   SpecWriters two invocations appending to one sheet, their backend     *)
(*               calls interleaved;                                        *)
(*   SpecFolder  the folder script run repeatedly over a source folder     *)
(*               into which files are dropped.                             *)
(***************************************************************************)
EXTENDS Integers, Sequences, FiniteSets, TLC

VARIABLES
    pc,            \* position of the running invocation ("idle" between runs)
    entry,         \* entry point of the current / last invocation
    runs,          \* invocations started so far (the wall clock's tick)
    apikey,        \* script property SCRAPERAPI_API_KEY as read by the run
    dayOfWeek,     \* KST ISO weekday read by the gate (0: not read)
    hourOfDay,     \* KST hour read by the gate
    complexities,  \* main: the Result flowing through the bind chain
    steps,         \* chain steps (caller-supplied functions) invoked this run
    httpCalls,     \* outbound HTTP calls of this run
    statusCode,    \* status code of the exchange this run completed (0: none)
    mySheetResult, \* main: Result of MySheet.fromNames
    saveResult,    \* main: Result of the save
    ssCount,       \* spreadsheets named "SJCityLib" in the Drive root
    sheets,        \* sheet name -> rows, for the sheets of that spreadsheet
    sheets0,       \* value of sheets when the current invocation started
    folderCount,   \* Drive folders named "SJLIB"
    htmlFiles,     \* files of that folder, in creation order
    log,           \* terminal log lines of this run
    uncaught,      \* an exception escaped from the entry point
    res0,          \* SpecResult: the Result the chain started from
    res,           \* SpecResult: the Result the chain has reached
    lastCall,      \* SpecResult: the last bind/map call and what it did
    chainLen,      \* SpecResult: operations applied so far
    doc,           \* SpecExtract: the document under test
    extracted,     \* SpecExtract: completion of fromResponse on doc
    fixture,       \* SpecFixture: the floor blocks doc is rendered from
    traffic,       \* SpecFixture: parseTrafficFromHtmlContent(doc)
    fetched,       \* main: completion of UrlFetchApp.fetch in the fetch step
    handle,        \* SpecStore: sheet the last locate-or-create returned
    storeCall,     \* SpecStore: the last store operation and what it did
    storeOps,      \* SpecStore: store operations applied so far
    clock,         \* SpecName: the date, time and status code of an archival
    archived,      \* SpecName: the timestamp and the file name made of them
    recovered,     \* SpecName: parseDateTimeFromFilename of that file name
    table,         \* SpecWriters: rows of the destination sheet
    writers,       \* SpecWriters: position and locals of each invocation
    written,       \* SpecWriters: blocks written so far, in order
    overlapped,    \* SpecWriters: an invocation started while another ran
    files,         \* SpecFolder: the files dropped into the source folder
    subFolders,    \* SpecFolder: sub-folders of the source folder
    validFileIds,  \* SpecFolder: ids main has still to parse and save
    folderPc,      \* SpecFolder: position of the run of main
    passes,        \* SpecFolder: runs of main started so far
    folderCall,    \* SpecFolder: the last function call and what it did
    appended,      \* SpecFolder: blocks written for each file so far
    raised,        \* SpecFolder: a backend call has raised in some run
    seen,          \* SpecFolder: ids listed by earlier runs
    passNew,       \* SpecFolder: the run listed a file no earlier run listed
    libCount,      \* spreadsheets named "SJLib" in the source folder
    libSheets,     \* sheet name -> rows, for the sheets of that spreadsheet
    libSheets0,    \* value of libSheets when the current run of main started
    libHandle,     \* SpecStore: sheet the last getOrCreateSheet returned
    strays         \* spreadsheets named "SJLib" left in the Drive root

vars == << pc, entry, runs, apikey, dayOfWeek, hourOfDay, complexities, steps,
           httpCalls, statusCode, mySheetResult, saveResult, ssCount, sheets, sheets0,
           folderCount, htmlFiles, log, uncaught,
           res0, res, lastCall, chainLen, doc, extracted, fixture, traffic,
           fetched, handle, storeCall, storeOps, clock, archived, recovered,
           table, writers, written, overlapped,
           files, subFolders, validFileIds, folderPc, passes, folderCall,
           appended, raised, seen, passNew,
           libCount, libSheets, libSheets0, libHandle, strays >>

entryVars == << pc, entry, runs, apikey, dayOfWeek, hourOfDay, complexities,
                steps, httpCalls, statusCode, mySheetResult, saveResult,
                folderCount, htmlFiles, log, uncaught, fetched >>

pipeVars == << pc, entry, runs, apikey, dayOfWeek, hourOfDay, complexities,
               steps, httpCalls, statusCode, mySheetResult, saveResult,
               ssCount, sheets, sheets0, folderCount, htmlFiles, log,
               uncaught, fetched >>

storeVars == << handle, storeCall, storeOps >>

nameVars == << clock, archived, recovered >>

writerVars == << table, writers, written, overlapped >>

scanVars == << files, subFolders, validFileIds, folderPc, passes,
               folderCall, appended, raised, seen, passNew >>

libVars == << libCount, libSheets, libSheets0, libHandle, strays >>

folderVars == << scanVars, libVars >>

auxVars == << nameVars, writerVars, folderVars >>

labVars == << res0, res, lastCall, chainLen >>

docVars == << doc, extracted, fixture, traffic >>

----------------------------------------------------------------------------
(* Bounds *)

MaxValue == 2      \* SpecResult: payload values 1..MaxValue
MaxError == 2      \* SpecResult: error values 1..MaxError
MaxChain == 3      \* SpecResult: length of a bind/map chain
MaxRuns == 3       \* invocations per behaviour
MaxDocLen == 3     \* SpecExtract: longest document, in markup tokens
MaxFloors == 2     \* SpecFixture: floor blocks of a fixture
MaxPins == 2       \* SpecFixture: pins of each floor block
MaxStoreOps == 4   \* SpecStore: store operations per behaviour
MaxBlock == 2      \* SpecWriters: rows of one appended block
MaxAppends == 3    \* SpecWriters: invocations per behaviour
MaxFiles == 2      \* SpecFolder: files dropped into the source folder
MaxPasses == 2     \* SpecFolder: runs of main per behaviour

----------------------------------------------------------------------------
(* JavaScript completions: a call either returns a value or throws.        *)

Return(v) == [kind |-> "return", val |-> v]

Throw(e) == [kind |-> "throw", err |-> e]

(* class Success / class Failure *)

Success(value) == [tag |-> "Success", value |-> value]

Failure(error) == [tag |-> "Failure", error |-> error]

IsSuccess(r) == r.tag = "Success"

IsFailure(r) == r.tag = "Failure"

(* The values a function chained onto r can be applied to. *)
ValueOf(r) == IF IsSuccess(r) THEN { r.value } ELSE { }

(* Each method yields the arguments its caller-supplied function was       *)
(* invoked with (calls) and the method's own completion (out).  fn is a    *)
(* function from the values it can be applied to, to completions.          *)

Success_bind_nocatch(self, fn) ==
    [calls |-> << self.value >>, out |-> fn[self.value]]

Success_bind(self, fn) ==
    [calls |-> << self.value >>,
     out   |-> IF fn[self.value].kind = "throw"
               THEN Return(Failure(fn[self.value].err))
               ELSE Return(fn[self.value].val)]

Success_map(self, fn) ==
    [calls |-> << self.value >>,
     out   |-> IF fn[self.value].kind = "throw"
               THEN Return(Failure(fn[self.value].err))
               ELSE Return(Success(fn[self.value].val))]

Failure_map_calls(self, fn) == [calls |-> << self.error >>, out |-> Return(self)]

Failure_bind_calls(self, fn) == [calls |-> << self.error >>, out |-> Return(self)]

Failure_map(self, fn) == [calls |-> << >>, out |-> Return(self)]

Failure_bind(self, fn) == [calls |-> << >>, out |-> Return(self)]

(* Dynamic dispatch of r.bind(fn) / r.map(fn) on the class of r. *)

bind(r, fn) == IF IsSuccess(r) THEN Success_bind(r, fn) ELSE Failure_bind(r, fn)

map(r, fn) == IF IsSuccess(r) THEN Success_map(r, fn) ELSE Failure_map(r, fn)

----------------------------------------------------------------------------
(* Strings are sequences of characters; " " is the whitespace character.   *)
(* Null is the value getProperty returns for a property that is not set.   *)

Null == << "null" >>

RECURSIVE trimStart(_)
trimStart(s) ==
    IF s # << >> /\ Head(s) = " " THEN trimStart(Tail(s)) ELSE s

RECURSIVE trimEnd(_)
trimEnd(s) ==
    IF s # << >> /\ s[Len(s)] = " " THEN trimEnd(SubSeq(s, 1, Len(s) - 1)) ELSE s

trim(s) == trimEnd(trimStart(s))

(* JavaScript !x for a string-or-null x *)
Falsy(x) == x = Null \/ x = << >>

(* Every string-or-null of at most two characters over the alphabet. *)
StringsOver(alphabet) ==
    { Null } \cup UNION { [1..n -> alphabet] : n \in 0..2 }

(* Utilities.formatDate(now, "Asia/Seoul", "yyyy-MM-dd_HH-mm-ss"): one     *)
(* distinct string per invocation.                                         *)
(* The decimal digits, and a number written in at least width digits. *)
Digits == { "0", "1", "2", "3", "4", "5", "6", "7", "8", "9" }

RECURSIVE Pad(_, _)
Pad(text, width) ==
    IF Len(text) >= width THEN text ELSE Pad("0" \o text, width)

(* Utilities.formatDate(now, timeZone, "yyyy-MM-dd_HH-mm-ss") *)
formatDate(now) ==
    Pad(ToString(now.year), 4) \o "-" \o Pad(ToString(now.month), 2) \o "-"
        \o Pad(ToString(now.day), 2) \o "_" \o Pad(ToString(now.hour), 2)
        \o "-" \o Pad(ToString(now.minute), 2) \o "-"
        \o Pad(ToString(now.second), 2)

(* The timestamp of the run that starts at the tick: ticks are the seconds *)
(* of one minute of the wall clock.                                        *)
Timestamp(tick) ==
    formatDate([year |-> 2025, month |-> 1, day |-> 6, hour |-> 9,
                minute |-> 0, second |-> tick])

(* Values the script property SCRAPERAPI_API_KEY is set to. *)
Keys == { Null, << >>, << " " >>, << " ", " " >>, << "k" >> }

(* "https://lib.sejong.go.kr/main/site/sensor/traffic.do" *)
TargetUrl == << "u" >>

----------------------------------------------------------------------------
(* class ScraperAPI *)

ScraperAPI(timestamp, url, apiKey) ==
    [timestamp |-> timestamp, url |-> url, apiKey |-> apiKey]

(* ScraperAPI.getTime: "u" gives 1 (Mon) .. 7 (Sun), "H" gives 0 .. 23.    *)
DaysOfWeek == 1..7

HoursOfDay == 0..23

fromApiKey_nocheck(url, apiKey, timestamp) ==
    Success(ScraperAPI(timestamp, url, apiKey))

fromApiKey(url, apiKey, timestamp) ==
    IF Falsy(apiKey) \/ trim(apiKey) = << >>
    THEN Failure(<< "API key is missing or empty." >>)
    ELSE IF Falsy(url) \/ trim(url) = << >>
    THEN Failure(<< "URL is missing or empty." >>)
    ELSE Success(ScraperAPI(timestamp, url, apiKey))

hasValidTime_late(self, d, h) ==
    IF d >= 1 /\ d <= 5 /\ h >= 9 /\ h <= 22
    THEN Success(self)
    ELSE IF (d = 6 \/ d = 7) /\ h >= 9 /\ h <= 17
    THEN Success(self)
    ELSE Failure(<< "Outside of scheduled KST hours", d, h >>)

hasValidTime(self, d, h) ==
    IF d >= 1 /\ d <= 5 /\ h >= 9 /\ h <= 21
    THEN Success(self)
    ELSE IF (d = 6 \/ d = 7) /\ h >= 9 /\ h <= 17
    THEN Success(self)
    ELSE Failure(<< "Outside of scheduled KST hours", d, h >>)

----------------------------------------------------------------------------
(* class Response *)

Response(timestamp, contentText, responseCode) ==
    [timestamp |-> timestamp, contentText |-> contentText,
     responseCode |-> responseCode]

hasValidCode_inclusive(self) ==
    IF self.responseCode >= 200 /\ self.responseCode <= 300
    THEN Success(self)
    ELSE Failure(<< "Response code was <code>, not 2XX.", self.responseCode >>)

hasValidCode_chained(self) ==
    \* the chained comparison 200 <= code < 300 of JavaScript: always true
    Success(self)

hasValidCode(self) ==
    IF self.responseCode >= 200 /\ self.responseCode < 300
    THEN Success(self)
    ELSE Failure(<< "Response code was <code>, not 2XX.", self.responseCode >>)

(* What UrlFetchApp.fetch(apiUrl, {muteHttpExceptions: true}) does: it     *)
(* raises, or it completes with a status code and a body.                  *)
StatusCodes == { 199, 200, 299, 300, 503 }

(* fromScraperAPI with a fetch that raises for a status code outside 2xx. *)
fromScraperAPI_httpErrors(scraperapi, exchange) ==
    IF exchange.kind = "throw"
    THEN Failure(exchange.err)
    ELSE IF exchange.val.responseCode < 200 \/ exchange.val.responseCode >= 300
    THEN Failure(<< "Exception: request failed" >>)
    ELSE Success(Response(scraperapi.timestamp,
                          exchange.val.contentText,
                          exchange.val.responseCode))

fromScraperAPI(scraperapi, exchange) ==
    IF exchange.kind = "throw"
    THEN Failure(exchange.err)
    ELSE Success(Response(scraperapi.timestamp,
                          exchange.val.contentText,
                          exchange.val.responseCode))

----------------------------------------------------------------------------
(* Markup.  A document is a sequence of tokens:                            *)
(*   <<"floor", id>>       <div class="floor_info"> <div class="f_num">id  *)
(*                         </div> </div> <div class="floor_img">           *)
(*   <<"pin", status, loc>> <p class="map_pin" ..><span class='situN'>     *)
(*                         status</span>loc</p>                            *)
(*   <<"ediv">>            </div>                                          *)
(*   <<"text">>            any other text                                  *)

FloorTok(id) == << "floor", id >>

PinTok(status, location) == << "pin", status, location >>

EdivTok == << "ediv" >>

TextTok == << "text" >>

(* The text of the token contains "</div>". *)
HasCloseDiv(tok) == tok[1] \in { "floor", "ediv" }

(* class Complexity *)
Complexity(timestamp, floor, location, status) ==
    [timestamp |-> timestamp, floor |-> floor, location |-> location,
     status |-> status]

(* The pin scan that delivers its readings in the reverse of the order of *)
(* the pins.                                                             *)
RECURSIVE locationScan_reversed(_, _, _, _)
locationScan_reversed(imgContent, lastIndex, timestamp, floorNum) ==
    IF lastIndex > Len(imgContent)
    THEN << >>
    ELSE IF imgContent[lastIndex][1] = "pin"
    THEN locationScan_reversed(imgContent, lastIndex + 1, timestamp, floorNum)
         \o << Complexity(timestamp, floorNum,
                          imgContent[lastIndex][3], imgContent[lastIndex][2]) >>
    ELSE locationScan_reversed(imgContent, lastIndex + 1, timestamp, floorNum)

(* locationRegex.exec loop over one floor's sub-region, from lastIndex.    *)
RECURSIVE locationScan(_, _, _, _)
locationScan(imgContent, lastIndex, timestamp, floorNum) ==
    IF lastIndex > Len(imgContent)
    THEN << >>
    ELSE IF imgContent[lastIndex][1] = "pin"
    THEN << Complexity(timestamp, floorNum,
                       imgContent[lastIndex][3], imgContent[lastIndex][2]) >>
         \o locationScan(imgContent, lastIndex + 1, timestamp, floorNum)
    ELSE locationScan(imgContent, lastIndex + 1, timestamp, floorNum)

(* floorRegex.exec loop: the next floor header at or after lastIndex whose *)
(* lazy sub-region can be closed by a later "</div>".                      *)
FloorStarts(contentText, lastIndex) ==
    { i \in lastIndex..Len(contentText) :
        /\ contentText[i][1] = "floor"
        /\ \E j \in (i + 1)..Len(contentText) : HasCloseDiv(contentText[j]) }

Min(S) == CHOOSE x \in S : \A y \in S : x <= y

FloorEnd(contentText, i) ==
    Min({ j \in (i + 1)..Len(contentText) : HasCloseDiv(contentText[j]) })

(* As floorScan, the pin scan of a floor running to the end of the text. *)
RECURSIVE floorScan_leak(_, _, _)
floorScan_leak(contentText, lastIndex, timestamp) ==
    IF FloorStarts(contentText, lastIndex) = { }
    THEN << >>
    ELSE LET i == Min(FloorStarts(contentText, lastIndex))
             j == FloorEnd(contentText, i)
         IN  locationScan(SubSeq(contentText, i + 1, Len(contentText)), 1,
                          timestamp, contentText[i][2])
             \o floorScan_leak(contentText, j + 1, timestamp)

RECURSIVE floorScan(_, _, _)
floorScan(contentText, lastIndex, timestamp) ==
    IF FloorStarts(contentText, lastIndex) = { }
    THEN << >>
    ELSE LET i == Min(FloorStarts(contentText, lastIndex))
             j == FloorEnd(contentText, i)
         IN  locationScan(SubSeq(contentText, i + 1, j - 1), 1, timestamp,
                          contentText[i][2])
             \o floorScan(contentText, j + 1, timestamp)

fromResponse_emptyOk(response) ==
    IF response.contentText = << >>
    THEN Failure(<< "No content in the response" >>)
    ELSE Success(floorScan(response.contentText, 1, response.timestamp))

fromResponse(response) ==
    IF response.contentText = << >>
    THEN Failure(<< "No content in the response" >>)
    ELSE LET results == floorScan(response.contentText, 1, response.timestamp)
         IN  IF Len(results) > 0
             THEN Success(results)
             ELSE Failure(<< "No complexity data found in the content" >>)

(* parseTrafficFromHtmlContent of src/src/parseHtml.js: the same two       *)
(* loops, the results being {floor, location, status} objects.             *)
TrafficInfo(floor, location, status) ==
    [floor |-> floor, location |-> location, status |-> status]

RECURSIVE trafficLocationScan(_, _, _)
trafficLocationScan(imgContent, lastIndex, floorNum) ==
    IF lastIndex > Len(imgContent)
    THEN << >>
    ELSE IF imgContent[lastIndex][1] = "pin"
    THEN << TrafficInfo(floorNum, imgContent[lastIndex][3],
                        imgContent[lastIndex][2]) >>
         \o trafficLocationScan(imgContent, lastIndex + 1, floorNum)
    ELSE trafficLocationScan(imgContent, lastIndex + 1, floorNum)

RECURSIVE trafficFloorScan(_, _)
trafficFloorScan(htmlContent, lastIndex) ==
    IF FloorStarts(htmlContent, lastIndex) = { }
    THEN << >>
    ELSE LET i == Min(FloorStarts(htmlContent, lastIndex))
             j == FloorEnd(htmlContent, i)
         IN  trafficLocationScan(SubSeq(htmlContent, i + 1, j - 1), 1,
                                 htmlContent[i][2])
             \o trafficFloorScan(htmlContent, j + 1)

parseTrafficFromHtmlContent(htmlContent) == trafficFloorScan(htmlContent, 1)

----------------------------------------------------------------------------
(* class MySheet.  The spreadsheet "SJCityLib" of the Drive root is the    *)
(* pair (ssCount, sheets); a handle names the sheet it refers to.  The     *)
(* spreadsheet "SJLib" of the source folder of the folder script is        *)
(* another one, the pair (libCount, libSheets).                            *)

Header == << "Timestamp", "Floor", "Location", "Status" >>

MySheet(fileId, sheet) == [fileId |-> fileId, sheet |-> sheet]

(* SpreadsheetApp.create: a new spreadsheet holds one empty sheet "Sheet1" *)
NewSpreadsheet == [n \in { "Sheet1" } |-> << >>]

(* Spreadsheet.insertSheet(name) *)
insertSheet(book, name) ==
    [n \in DOMAIN book \cup { name } |-> IF n = name THEN << >> ELSE book[n]]

(* Spreadsheet.deleteSheet(sheet) *)
deleteSheet(book, name) == [n \in DOMAIN book \ { name } |-> book[n]]

(* Sheet.appendRow(row) *)
appendRow(book, name, row) == [book EXCEPT ![name] = Append(@, row)]

(* Sheet.getLastRow() *)
getLastRow(book, name) == Len(book[name])

(* Backend calls that may raise.  A function is given the call that raises *)
(* while it runs ("none": no call raises); the exception it catches is     *)
(* named after that call.  "getSheetByName#2" is the second getSheetByName *)
(* of a function, the one that looks for "Sheet1".                         *)
FileFaults == { "getFilesByName", "openById", "create" }

SheetFaults ==
    { "getSheetByName", "insertSheet", "getLastRow", "appendRow",
      "getSheetByName#2", "deleteSheet" }

(* The exception of a call that raised: it names the call. *)
ErrorOf(fault) ==
    IF fault = "getSheetByName#2" THEN "getSheetByName" ELSE fault

SaveFaults == { "getLastRow", "setValues" }

(* Variants of fromFileName: a spreadsheet created whether or not one was  *)
(* found; a raise of the backend passed on to the caller.                  *)
fromFileName_nocatch(count, book, fileName, sheet, fault) ==
    IF fault \in FileFaults
    THEN [ssCount |-> count, sheets |-> book, out |-> Throw(fault)]
    ELSE IF count > 0
    THEN [ssCount |-> count, sheets |-> book,
          out |-> Success(MySheet(fileName, sheet))]
    ELSE [ssCount |-> count + 1, sheets |-> NewSpreadsheet,
          out |-> Success(MySheet(fileName, sheet))]

fromFileName_alwaysCreate(count, book, fileName, sheet, fault) ==
    [ssCount |-> count + 1, sheets |-> NewSpreadsheet,
     out |-> Success(MySheet(fileName, sheet))]

(* MySheet.fromFileName: count of spreadsheets after the call, the book    *)
(* the handle refers to, and the Result.  The search raises, or openById   *)
(* of the file found, or SpreadsheetApp.create (nothing is created then).  *)
fromFileName(count, book, fileName, sheet, fault) ==
    IF \/ fault = "getFilesByName"
       \/ count > 0 /\ fault = "openById"
       \/ count = 0 /\ fault = "create"
    THEN [ssCount |-> count, sheets |-> book,
          out |-> Failure(<< "Error in 'getFileId'", fault >>)]
    ELSE IF count > 0
    THEN [ssCount |-> count, sheets |-> book,
          out |-> Success(MySheet(fileName, sheet))]
    ELSE [ssCount |-> count + 1, sheets |-> NewSpreadsheet,
          out |-> Success(MySheet(fileName, sheet))]

(* Variants of fromSheetName, for a backend that does not raise: the       *)
(* header appended whenever the sheet is found; the header never appended  *)
(* to a sheet that is found; "Sheet1" deleted before the sheet is looked   *)
(* for.                                                                    *)
fromSheetName_headerAlways(book, fileId, sheetName, fault) ==
    IF sheetName \notin DOMAIN book
    THEN [sheets |-> insertSheet(book, sheetName),
          out |-> Failure(<< "Error in 'getSheet'", "TypeError" >>)]
    ELSE LET withHeader == appendRow(book, sheetName, Header)
             cleaned ==
                 IF sheetName # "Sheet1" /\ "Sheet1" \in DOMAIN withHeader
                 THEN deleteSheet(withHeader, "Sheet1")
                 ELSE withHeader
         IN  [sheets |-> cleaned, out |-> Success(MySheet(fileId, sheetName))]

fromSheetName_noHeader(book, fileId, sheetName, fault) ==
    IF sheetName \notin DOMAIN book
    THEN [sheets |-> insertSheet(book, sheetName),
          out |-> Failure(<< "Error in 'getSheet'", "TypeError" >>)]
    ELSE LET cleaned ==
                 IF sheetName # "Sheet1" /\ "Sheet1" \in DOMAIN book
                 THEN deleteSheet(book, "Sheet1")
                 ELSE book
         IN  [sheets |-> cleaned, out |-> Success(MySheet(fileId, sheetName))]

fromSheetName_deleteFirst(book, fileId, sheetName, fault) ==
    LET cleaned == IF "Sheet1" \in DOMAIN book
                   THEN deleteSheet(book, "Sheet1")
                   ELSE book
    IN  IF sheetName \notin DOMAIN cleaned
        THEN [sheets |-> cleaned,
              out |-> Failure(<< "Error in 'getSheet'", "TypeError" >>)]
        ELSE [sheets |-> IF getLastRow(cleaned, sheetName) = 0
                         THEN appendRow(cleaned, sheetName, Header)
                         ELSE cleaned,
              out |-> Success(MySheet(fileId, sheetName))]

(* MySheet.fromSheetName.  `sheet` is declared const, so the assignment    *)
(* sheet = fileId.insertSheet(sheetName) throws a TypeError after the      *)
(* sheet has been inserted; the catch turns it into a Failure.             *)
fromSheetName(book, fileId, sheetName, fault) ==
    LET caught(left) ==
            [sheets |-> left,
             out |-> Failure(<< "Error in 'getSheet'", ErrorOf(fault) >>)]
    IN  IF fault = "getSheetByName"
        THEN caught(book)
        ELSE IF sheetName \notin DOMAIN book
        THEN IF fault = "insertSheet"
             THEN caught(book)
             ELSE [sheets |-> insertSheet(book, sheetName),
                   out |-> Failure(<< "Error in 'getSheet'", "TypeError" >>)]
        ELSE IF fault = "getLastRow"
        THEN caught(book)
        ELSE IF getLastRow(book, sheetName) = 0 /\ fault = "appendRow"
        THEN caught(book)
        ELSE LET withHeader ==
                     IF getLastRow(book, sheetName) = 0
                     THEN appendRow(book, sheetName, Header)
                     ELSE book
             IN  IF sheetName # "Sheet1" /\ fault = "getSheetByName#2"
                 THEN caught(withHeader)
                 ELSE IF sheetName # "Sheet1" /\ "Sheet1" \in DOMAIN withHeader
                 THEN IF fault = "deleteSheet"
                      THEN caught(withHeader)
                      ELSE [sheets |-> deleteSheet(withHeader, "Sheet1"),
                            out |-> Success(MySheet(fileId, sheetName))]
                 ELSE [sheets |-> withHeader,
                       out |-> Success(MySheet(fileId, sheetName))]

(* MySheet.fromNames *)
fromNames(count, book, fileName, sheetName, fault) ==
    LET fileResult == fromFileName(count, book, fileName, "", fault)
    IN  IF IsFailure(fileResult.out)
        THEN fileResult
        ELSE LET sheetResult ==
                     fromSheetName(fileResult.sheets, fileName, sheetName,
                                   fault)
             IN  [ssCount |-> fileResult.ssCount,
                  sheets |-> sheetResult.sheets,
                  out |-> sheetResult.out]

RowOf(complexity) ==
    << complexity.timestamp, complexity.floor, complexity.location,
       complexity.status >>

rowsToAdd(cs) == [i \in 1..Len(cs) |-> RowOf(cs[i])]

(* sheet.getRange(row, 1, values.length, 4).setValues(values): the rows of *)
(* the sheet from row on are replaced by values; row <= getLastRow() + 1.  *)
setValues(rows, row, values) ==
    [i \in 1..(IF Len(rows) > row + Len(values) - 1
               THEN Len(rows)
               ELSE row + Len(values) - 1) |->
        IF i >= row /\ i < row + Len(values) THEN values[i - row + 1] ELSE rows[i]]

(* Variants of saveFrom, for a backend that does not raise: the block      *)
(* written from the last row on; an upstream Failure answered with         *)
(* Success; an upstream Failure noted in a row of the sheet.               *)
saveFrom_fromLastRow(self, complexityResult, book, fault) ==
    IF IsFailure(complexityResult)
    THEN [sheets |-> book, out |-> Failure(complexityResult.error)]
    ELSE IF Len(complexityResult.value) = 0
    THEN [sheets |-> book, out |-> Success(self)]
    ELSE [sheets |-> [book EXCEPT ![self.sheet] =
                          setValues(@, IF Len(@) = 0 THEN 1 ELSE Len(@),
                                    rowsToAdd(complexityResult.value))],
          out |-> Success(self)]

saveFrom_swallow(self, complexityResult, book, fault) ==
    IF IsFailure(complexityResult)
    THEN [sheets |-> book, out |-> Success(self)]
    ELSE IF Len(complexityResult.value) = 0
    THEN [sheets |-> book, out |-> Success(self)]
    ELSE [sheets |-> [book EXCEPT ![self.sheet] =
                          setValues(@, Len(@) + 1,
                                    rowsToAdd(complexityResult.value))],
          out |-> Success(self)]

saveFrom_errorRow(self, complexityResult, book, fault) ==
    IF IsFailure(complexityResult)
    THEN [sheets |-> [book EXCEPT ![self.sheet] =
                          setValues(@, Len(@) + 1,
                                    << << "", "", "", "failed" >> >>)],
          out |-> Failure(complexityResult.error)]
    ELSE IF Len(complexityResult.value) = 0
    THEN [sheets |-> book, out |-> Success(self)]
    ELSE [sheets |-> [book EXCEPT ![self.sheet] =
                          setValues(@, Len(@) + 1,
                                    rowsToAdd(complexityResult.value))],
          out |-> Success(self)]

(* MySheet.saveFrom: the book after the call and the Result.  The sheet is *)
(* left as it was when getLastRow or setValues raises.                     *)
saveFrom(self, complexityResult, book, fault) ==
    IF IsFailure(complexityResult)
    THEN [sheets |-> book, out |-> Failure(complexityResult.error)]
    ELSE IF Len(complexityResult.value) = 0
    THEN [sheets |-> book, out |-> Success(self)]
    ELSE IF fault \in SaveFaults
    THEN [sheets |-> book, out |-> Failure(<< "Error in 'saveFrom'", fault >>)]
    ELSE [sheets |-> [book EXCEPT ![self.sheet] =
                          setValues(@, getLastRow(book, self.sheet) + 1,
                                    rowsToAdd(complexityResult.value))],
          out |-> Success(self)]

----------------------------------------------------------------------------
(* The store functions of src/src/parseHtml.js.  The spreadsheet "SJLib"   *)
(* of the source folder is a pair (count, book) as above.                  *)

(* JavaScript null where a string as a whole is expected. *)
NullString == "null"

(* Backend calls of getOrCreateSpreadsheet that may raise.  getFileById    *)
(* raising leaves what addFile raising leaves, getRootFolder what          *)
(* removeFile does.                                                        *)
LibFaults ==
    { "getFilesByName", "openById", "create", "addFile", "removeFile",
      "getName" }

(* getOrCreateSpreadsheet(parentFolder): the count of spreadsheets "SJLib" *)
(* in parentFolder after the call, the book of the first, the spreadsheets *)
(* the call left in the Drive root, and the Spreadsheet returned (null     *)
(* after a raise, which the function catches).  SpreadsheetApp.create puts *)
(* the new spreadsheet into the root; addFile puts it into parentFolder,   *)
(* removeFile takes it out of the root; getName is called for the log line *)
(* behind them.                                                            *)
getOrCreateSpreadsheet(count, book, fault) ==
    LET caught(n, left, inRoot) ==
            [ssCount |-> n, sheets |-> left, strays |-> inRoot,
             out |-> NullString]
    IN  IF fault = "getFilesByName"
        THEN caught(count, book, 0)
        ELSE IF count > 0
        THEN IF fault = "openById"
             THEN caught(count, book, 0)
             ELSE [ssCount |-> count, sheets |-> book, strays |-> 0,
                   out |-> "SJLib"]
        ELSE IF fault = "create"
        THEN caught(count, book, 0)
        ELSE IF fault = "addFile"
        THEN caught(count, book, 1)
        ELSE IF fault = "removeFile"
        THEN caught(count + 1, NewSpreadsheet, 1)
        ELSE IF fault = "getName"
        THEN caught(count + 1, NewSpreadsheet, 0)
        ELSE [ssCount |-> count + 1, sheets |-> NewSpreadsheet, strays |-> 0,
              out |-> "SJLib"]

(* getOrCreateSheet(spreadsheet): the book after the call and the          *)
(* completion of the call, the name of the Sheet returned.  A raise leaves *)
(* the function, but for the one of deleteSheet, which the try around it   *)
(* swallows.                                                               *)
getOrCreateSheet(book, fault) ==
    LET sheetName == "Complexity"
        thrown(left) == [sheets |-> left, out |-> Throw(ErrorOf(fault))]
    IN  IF fault = "getSheetByName"
        THEN thrown(book)
        ELSE IF sheetName \notin DOMAIN book /\ fault = "insertSheet"
        THEN thrown(book)
        ELSE IF sheetName \notin DOMAIN book /\ fault = "appendRow"
        THEN thrown(insertSheet(book, sheetName))
        ELSE IF sheetName \in DOMAIN book /\ fault = "getLastRow"
        THEN thrown(book)
        ELSE IF /\ sheetName \in DOMAIN book
                /\ getLastRow(book, sheetName) = 0
                /\ fault = "appendRow"
        THEN thrown(book)
        ELSE LET withSheet ==
                     IF sheetName \notin DOMAIN book
                     THEN appendRow(insertSheet(book, sheetName), sheetName,
                                    Header)
                     ELSE IF getLastRow(book, sheetName) = 0
                     THEN appendRow(book, sheetName, Header)
                     ELSE book
             IN  IF sheetName # "Sheet1" /\ fault = "getSheetByName#2"
                 THEN thrown(withSheet)
                 ELSE IF /\ sheetName # "Sheet1"
                         /\ "Sheet1" \in DOMAIN withSheet
                         /\ fault # "deleteSheet"
                 THEN [sheets |-> deleteSheet(withSheet, "Sheet1"),
                       out |-> Return(sheetName)]
                 ELSE [sheets |-> withSheet, out |-> Return(sheetName)]

(* getOrCreateSubFolder(parentFolder, folderName): the sub-folders of      *)
(* parentFolder after the call and the completion of the call.             *)
getOrCreateSubFolder(folders, folderName, fault) ==
    IF \/ fault = "getFoldersByName"
       \/ folderName \notin folders /\ fault = "createFolder"
    THEN [folders |-> folders, out |-> Throw(fault)]
    ELSE [folders |-> folders \cup { folderName }, out |-> Return(folderName)]

(* The character of a string at a position. *)
CharAt(text, i) == SubSeq(text, i, i)

(* /(\d{4}-\d{2}-\d{2}_\d{2}-\d{2}-\d{2})/ with "d" for \d *)
DateTimePattern == "dddd-dd-dd_dd-dd-dd"

(* The pattern matches the text from position i on. *)
MatchesAt(pattern, text, i) ==
    /\ i + Len(pattern) - 1 <= Len(text)
    /\ \A k \in 1..Len(pattern) :
           IF CharAt(pattern, k) = "d"
           THEN CharAt(text, i + k - 1) \in Digits
           ELSE CharAt(text, i + k - 1) = CharAt(pattern, k)

(* fileName.match(pattern) from position i on: the leftmost match, or      *)
(* null.                                                                   *)
RECURSIVE matchFrom(_, _, _)
matchFrom(text, pattern, i) ==
    IF i + Len(pattern) - 1 > Len(text)
    THEN NullString
    ELSE IF MatchesAt(pattern, text, i)
    THEN SubSeq(text, i, i + Len(pattern) - 1)
    ELSE matchFrom(text, pattern, i + 1)

(* Variant of parseDateTimeFromFilename: the pattern of the date alone. *)
parseDateTimeFromFilename_dateOnly(fileName) ==
    matchFrom(fileName, "dddd-dd-dd", 1)

(* parseDateTimeFromFilename(fileName): match[1], or null. *)
parseDateTimeFromFilename(fileName) ==
    matchFrom(fileName, DateTimePattern, 1)

(* What a cell holds after setValues wrote the value: null leaves the cell *)
(* empty.                                                                  *)
CellOf(value) == IF value = NullString THEN "" ELSE value

(* Backend calls of parseAndSaveData that may raise. *)
ParseFaults == { "getFileById", "getBlob", "setValues", "moveTo" }

(* The rows of a file: [dateTimeString, floor, location, status] of each   *)
(* reading of its content.                                                 *)
FileRows(file) ==
    LET dateTimeString == parseDateTimeFromFilename(file.name)
        trafficInfo == parseTrafficFromHtmlContent(file.content)
    IN  [i \in 1..Len(trafficInfo) |->
            << CellOf(dateTimeString), trafficInfo[i].floor,
               trafficInfo[i].location, trafficInfo[i].status >>]

(* Variants of parseAndSaveData: the file moved to doneFolder before the   *)
(* rows are prepared; the file left where it is after the write.           *)
parseAndSaveData_moveFirst(file, sheetName, book, fault) ==
    IF fault \in { "getFileById", "getBlob", "moveTo" } \/ ~file.readable
    THEN [sheets |-> book, moved |-> FALSE]
    ELSE IF Len(FileRows(file)) = 0 \/ fault = "setValues"
    THEN [sheets |-> book, moved |-> TRUE]
    ELSE [sheets |-> [book EXCEPT ![sheetName] =
                          setValues(@, getLastRow(book, sheetName) + 1,
                                    FileRows(file))],
          moved |-> TRUE]

parseAndSaveData_noMove(file, sheetName, book, fault) ==
    IF fault \in { "getFileById", "getBlob", "setValues" } \/ ~file.readable
           \/ Len(FileRows(file)) = 0
    THEN [sheets |-> book, moved |-> FALSE]
    ELSE [sheets |-> [book EXCEPT ![sheetName] =
                          setValues(@, getLastRow(book, sheetName) + 1,
                                    FileRows(file))],
          moved |-> FALSE]

(* parseAndSaveData(fileId, sheet, doneFolder): the book after the call    *)
(* and whether the file was moved to doneFolder.  Whatever raises is       *)
(* caught and logged: the file is not read, or nothing is written, or the  *)
(* rows are written and the file stays.                                    *)
parseAndSaveData(file, sheetName, book, fault) ==
    IF fault \in { "getFileById", "getBlob" } \/ ~file.readable
    THEN [sheets |-> book, moved |-> FALSE]
    ELSE IF Len(FileRows(file)) = 0
    THEN [sheets |-> book, moved |-> FALSE]
    ELSE IF fault = "setValues"
    THEN [sheets |-> book, moved |-> FALSE]
    ELSE [sheets |-> [book EXCEPT ![sheetName] =
                          setValues(@, getLastRow(book, sheetName) + 1,
                                    FileRows(file))],
          moved |-> fault # "moveTo"]

(* MimeType.HTML *)
MimeHtml == "text/html"

IsNameValid(file) == parseDateTimeFromFilename(file.name) # NullString

IsContentValid(file) == Len(parseTrafficFromHtmlContent(file.content)) > 0

(* The while loop of processHtmlFolder from the i-th file of the listing   *)
(* on: the ids found valid, the ids moved to errorFolder, and whether the  *)
(* outer catch was reached.  The fault names the call that raises and the  *)
(* index of its file: files.hasNext() -- called once more behind the last  *)
(* file --, files.next(), file.getName(), file.getId(),                    *)
(* file.getMimeType() or file.moveTo(errorFolder).  A content that cannot  *)
(* be read is caught by the inner try, which moves the file.               *)
RECURSIVE processHtmlFolder_loop(_, _, _, _, _)
processHtmlFolder_loop(listing, i, ids, moved, fault) ==
    LET raises(call) == fault = [call |-> call, index |-> i]
        ends(caught) ==
            [validFileIds |-> ids, toError |-> moved, caught |-> caught]
    IN  IF raises("hasNext")
        THEN ends(TRUE)
        ELSE IF i > Len(listing)
        THEN ends(FALSE)
        ELSE IF \/ raises("next")
                \/ raises("getName")
                \/ raises("getId")
                \/ raises("getMimeType")
        THEN ends(TRUE)
        ELSE LET file == listing[i]
             IN  IF file.mime # MimeHtml
                 THEN processHtmlFolder_loop(listing, i + 1, ids, moved, fault)
                 ELSE IF /\ file.readable
                         /\ IsNameValid(file)
                         /\ IsContentValid(file)
                 THEN processHtmlFolder_loop(listing, i + 1,
                                             Append(ids, file.id), moved,
                                             fault)
                 ELSE IF raises("moveTo")
                 THEN ends(TRUE)
                 ELSE processHtmlFolder_loop(listing, i + 1, ids,
                                             moved \cup { file.id }, fault)

(* Variants of processHtmlFolder: the file name not checked; the type of   *)
(* the file not checked.                                                   *)
processHtmlFolder_anyName(listing, fault) ==
    LET html == SelectSeq(listing, LAMBDA f : f.mime = MimeHtml)
        ok(f) == f.readable /\ IsContentValid(f)
    IN  [out |-> Return([i \in 1..Len(SelectSeq(html, ok)) |->
                            SelectSeq(html, ok)[i].id]),
         toError |-> { html[i].id : i \in { j \in 1..Len(html) : ~ok(html[j]) } },
         caught |-> FALSE]

processHtmlFolder_anyType(listing, fault) ==
    LET ok(f) == f.readable /\ IsNameValid(f) /\ IsContentValid(f)
    IN  [out |-> Return([i \in 1..Len(SelectSeq(listing, ok)) |->
                            SelectSeq(listing, ok)[i].id]),
         toError |-> { listing[i].id :
                         i \in { j \in 1..Len(listing) : ~ok(listing[j]) } },
         caught |-> FALSE]

(* processHtmlFolder(sourceFolder, errorFolder): the completion of the     *)
(* call, the ids of the files it moved to errorFolder, and whether its     *)
(* outer catch was reached.  sourceFolder.getFiles() and the getName() of  *)
(* the two folders, for the log, are called before the loop, inside the    *)
(* try: their fault has index 0.  validFileIds is returned behind the      *)
(* catch.                                                                  *)
processHtmlFolder(listing, fault) ==
    IF fault.call \in { "sourceFolder.getFiles", "sourceFolder.getName",
                        "errorFolder.getName" }
    THEN [out |-> Return(<< >>), toError |-> { }, caught |-> TRUE]
    ELSE LET r == processHtmlFolder_loop(listing, 1, << >>, { }, fault)
         IN  [out |-> Return(r.validFileIds), toError |-> r.toError,
              caught |-> r.caught]

(* The order of the characters of a timestamp, and of two texts. *)
CharRank(c) ==
    CASE c = "-" -> 0
      [] c = "0" -> 1 [] c = "1" -> 2 [] c = "2" -> 3 [] c = "3" -> 4
      [] c = "4" -> 5 [] c = "5" -> 6 [] c = "6" -> 7 [] c = "7" -> 8
      [] c = "8" -> 9 [] c = "9" -> 10
      [] c = "_" -> 11
      [] OTHER -> 12

RECURSIVE TextBefore(_, _)
TextBefore(a, b) ==
    IF b = ""
    THEN FALSE
    ELSE IF a = ""
    THEN TRUE
    ELSE IF CharAt(a, 1) # CharAt(b, 1)
    THEN CharRank(CharAt(a, 1)) < CharRank(CharAt(b, 1))
    ELSE TextBefore(Tail(a), Tail(b))

RECURSIVE InsertRow(_, _)
InsertRow(sorted, row) ==
    IF sorted = << >>
    THEN << row >>
    ELSE IF TextBefore(row[1], Head(sorted)[1])
    THEN << row >> \o sorted
    ELSE << Head(sorted) >> \o InsertRow(Tail(sorted), row)

(* dataRange.sort({ column: 1, ascending: true }) *)
RECURSIVE sort(_)
sort(rows) ==
    IF rows = << >>
    THEN << >>
    ELSE InsertRow(sort(SubSeq(rows, 1, Len(rows) - 1)), rows[Len(rows)])

(* Step 5 of main: the rows below the header sorted by column 1. *)
sortSheet(rows) ==
    IF Len(rows) > 1 THEN << rows[1] >> \o sort(Tail(rows)) ELSE rows

----------------------------------------------------------------------------
(* The environment *)

(* Pages the target site may answer with. *)
Pages ==
    { << >>,
      << TextTok >>,
      << FloorTok("1F"), EdivTok >>,
      << FloorTok("1F"), PinTok("smooth", "hall"), EdivTok >>,
      << FloorTok("1F"), PinTok("smooth", "hall"), EdivTok,
         FloorTok("B1"), PinTok("busy", "stacks"), EdivTok >> }

(* Completions of UrlFetchApp.fetch with muteHttpExceptions. *)
Exchanges ==
    { Throw(<< "Exception: request failed" >>) }
    \cup { Return([contentText |-> c, responseCode |-> code]) :
             c \in Pages, code \in StatusCodes }

(* The same, for the archival script. *)
ArchiveExchanges ==
    { Throw(<< "Exception: request failed" >>) }
    \cup { Return([contentText |-> c, responseCode |-> code]) :
             c \in { << FloorTok("1F"), PinTok("smooth", "hall"), EdivTok >> },
             code \in { 200, 503 } }

NoResult == [tag |-> "none"]

----------------------------------------------------------------------------
(* main() of src/src/Code.js, one action per statement of the chain.       *)

StartRun(name) ==
    /\ pc = "idle"
    /\ UNCHANGED fetched
    /\ runs < MaxRuns
    /\ runs' = runs + 1
    /\ entry' = name
    /\ UNCHANGED << complexities, mySheetResult, saveResult, steps, httpCalls,
                    statusCode, sheets0, log, ssCount, sheets, folderCount,
                    htmlFiles >>

(* const apikey = ...getProperty("SCRAPERAPI_API_KEY"): the value of the   *)
(* property, or a raise of the backend, which leaves main.                 *)
main_getProperty ==
    /\ StartRun("main")
    /\ \/ /\ \E k \in Keys : apikey' = k
          /\ pc' = "fromApiKey"
          /\ UNCHANGED uncaught
       \/ /\ apikey' = Null
          /\ pc' = "return"
          /\ uncaught' = TRUE
    /\ dayOfWeek' = 0
    /\ hourOfDay' = 0
    /\ UNCHANGED << labVars, docVars, storeVars, auxVars >>

(* ScraperAPI.fromApiKey(url, apikey) *)
main_fromApiKey ==
    /\ UNCHANGED fetched
    /\ pc = "fromApiKey"
    /\ complexities' = fromApiKey(TargetUrl, apikey, Timestamp(runs))
    /\ steps' = Append(steps, "fromApiKey")
    /\ pc' = "hasValidTime"
    /\ UNCHANGED << entry, runs, apikey, dayOfWeek, hourOfDay, httpCalls, statusCode,
                    mySheetResult, saveResult, ssCount, sheets, sheets0,
                    folderCount, htmlFiles, log, uncaught, labVars, docVars, storeVars, auxVars >>

(* One .bind(fn) of the chain: fn is applied to the value of the chain (if *)
(* bind invokes it at all); a completion that throws leaves main.          *)
ChainStep(name, call, next) ==
    /\ steps' = IF call.calls # << >> THEN Append(steps, name) ELSE steps
    /\ IF call.out.kind = "throw"
       THEN /\ uncaught' = TRUE
            /\ pc' = "return"
            /\ UNCHANGED complexities
       ELSE /\ complexities' = call.out.val
            /\ pc' = next
            /\ UNCHANGED uncaught

(* .bind((scrapper) => scrapper.hasValidTime()) *)
main_hasValidTime ==
    /\ UNCHANGED fetched
    /\ pc = "hasValidTime"
    /\ \E d \in DaysOfWeek, h \in HoursOfDay :
         LET fn == [v \in ValueOf(complexities) |->
                       Return(hasValidTime(v, d, h))]
             call == bind(complexities, fn)
         IN  /\ ChainStep("hasValidTime", call, "fromScraperAPI")
             /\ dayOfWeek' = IF call.calls # << >> THEN d ELSE 0
             /\ hourOfDay' = IF call.calls # << >> THEN h ELSE 0
    /\ UNCHANGED << entry, runs, apikey, httpCalls, statusCode,
                    mySheetResult, saveResult, ssCount, sheets, sheets0,
                    folderCount, htmlFiles, log, labVars, docVars, storeVars, auxVars >>

(* The fetch step with one more request after an exchange that raised or   *)
(* completed outside 2xx.                                                  *)
main_fromScraperAPI_retry ==
    /\ pc = "fromScraperAPI"
    /\ \E exchange \in Exchanges :
         LET fn == [v \in ValueOf(complexities) |->
                       Return(fromScraperAPI(v, exchange))]
             call == bind(complexities, fn)
             failed == \/ exchange.kind = "throw"
                       \/ exchange.val.responseCode < 200
                       \/ exchange.val.responseCode >= 300
         IN  /\ ChainStep("fromScraperAPI", call, "hasValidCode")
             /\ httpCalls' = httpCalls
                               + (IF failed THEN 2 ELSE 1) * Len(call.calls)
             /\ statusCode' = IF call.calls # << >> /\ exchange.kind = "return"
                                THEN exchange.val.responseCode
                                ELSE statusCode
             /\ fetched' = IF call.calls # << >> THEN exchange ELSE NoResult
    /\ dayOfWeek' = 0
    /\ hourOfDay' = 0
    /\ UNCHANGED << entry, runs, apikey, mySheetResult, saveResult, ssCount,
                    sheets, sheets0, folderCount, htmlFiles, log,
                    labVars, docVars, storeVars, auxVars >>

(* .bind((response) => Response.fromScraperAPI(response)) *)
main_fromScraperAPI ==
    /\ pc = "fromScraperAPI"
    /\ \E exchange \in Exchanges :
         LET fn == [v \in ValueOf(complexities) |->
                       Return(fromScraperAPI(v, exchange))]
             call == bind(complexities, fn)
         IN  /\ ChainStep("fromScraperAPI", call, "hasValidCode")
             /\ httpCalls' = httpCalls + Len(call.calls)
             /\ statusCode' = IF call.calls # << >> /\ exchange.kind = "return"
                                THEN exchange.val.responseCode
                                ELSE statusCode
             /\ fetched' = IF call.calls # << >> THEN exchange ELSE NoResult
    /\ dayOfWeek' = 0
    /\ hourOfDay' = 0
    /\ UNCHANGED << entry, runs, apikey, mySheetResult, saveResult, ssCount,
                    sheets, sheets0, folderCount, htmlFiles, log,
                    labVars, docVars, storeVars, auxVars >>

(* .bind((response) => response.hasValidCode()) *)
main_hasValidCode ==
    /\ fetched' = NoResult
    /\ pc = "hasValidCode"
    /\ LET fn == [v \in ValueOf(complexities) |-> Return(hasValidCode(v))]
       IN  ChainStep("hasValidCode", bind(complexities, fn), "fromResponse")
    /\ UNCHANGED << entry, runs, apikey, dayOfWeek, hourOfDay, httpCalls, statusCode,
                    mySheetResult, saveResult, ssCount, sheets, sheets0,
                    folderCount, htmlFiles, log, labVars, docVars, storeVars, auxVars >>

(* .bind((response) => Complexity.fromResponse(response)) *)
main_fromResponse ==
    /\ UNCHANGED fetched
    /\ pc = "fromResponse"
    /\ LET fn == [v \in ValueOf(complexities) |-> Return(fromResponse(v))]
       IN  ChainStep("fromResponse", bind(complexities, fn), "fromNames")
    /\ UNCHANGED << entry, runs, apikey, dayOfWeek, hourOfDay, httpCalls, statusCode,
                    mySheetResult, saveResult, ssCount, sheets, sheets0,
                    folderCount, htmlFiles, log, labVars, docVars, storeVars, auxVars >>

(* The backend calls that raise in runs of main: the search for the        *)
(* container, the search for the table, the search for "Sheet1" and its    *)
(* removal, the write of the block.  (A raise of another call leaves the   *)
(* store as one of these does.)                                            *)
MainFaults ==
    { "none", "getFilesByName", "getSheetByName", "getSheetByName#2",
      "deleteSheet", "setValues" }

(* const mySheetResult = MySheet.fromNames("SJCityLib", "Complexity") *)
main_fromNames ==
    /\ UNCHANGED fetched
    /\ pc = "fromNames"
    /\ \E fault \in MainFaults :
         LET r == fromNames(ssCount, sheets, "SJCityLib", "Complexity", fault)
         IN  /\ ssCount' = r.ssCount
             /\ sheets' = r.sheets
             /\ mySheetResult' = r.out
    /\ pc' = "saveFrom"
    /\ UNCHANGED << entry, runs, apikey, dayOfWeek, hourOfDay, complexities,
                    steps, httpCalls, statusCode, saveResult, sheets0, folderCount,
                    htmlFiles, log, uncaught, labVars, docVars, storeVars, auxVars >>

(* const saveResult = mySheetResult.bind((mySheet) =>                      *)
(*                        mySheet.saveFrom(complexities))                  *)
main_saveFrom ==
    /\ UNCHANGED fetched
    /\ pc = "saveFrom"
    /\ \E fault \in MainFaults :
         LET saved == [v \in ValueOf(mySheetResult) |->
                          saveFrom(v, complexities, sheets, fault)]
             fn == [v \in ValueOf(mySheetResult) |-> Return(saved[v].out)]
             call == bind(mySheetResult, fn)
         IN  /\ sheets' = IF call.calls # << >>
                          THEN saved[call.calls[1]].sheets
                          ELSE sheets
             /\ IF call.out.kind = "throw"
                THEN /\ uncaught' = TRUE
                     /\ pc' = "return"
                     /\ UNCHANGED saveResult
                ELSE /\ saveResult' = call.out.val
                     /\ pc' = "report"
                     /\ UNCHANGED uncaught
    /\ UNCHANGED << entry, runs, apikey, dayOfWeek, hourOfDay, complexities,
                    steps, httpCalls, statusCode, mySheetResult, ssCount, sheets0,
                    folderCount, htmlFiles, log, labVars, docVars, storeVars, auxVars >>

(* The two closing if statements of main. *)
(* The line logged for a reading after the success line. *)
ReadingLine(c) ==
    "  - Timestamp: " \o c.timestamp \o ", Floor: " \o c.floor
        \o ", Location: " \o c.location \o ", Status: " \o c.status

(* Variant of main_report: the failure line logged whatever saveResult is. *)
main_report_always ==
    /\ UNCHANGED fetched
    /\ pc = "report"
    /\ log' = (IF IsSuccess(saveResult)
               THEN << "Operation Succeeded (including save):" >>
               ELSE << "Operation failed" >>) \o << "Operation failed" >>
    /\ pc' = "return"
    /\ UNCHANGED << entry, runs, apikey, dayOfWeek, hourOfDay, complexities,
                    steps, httpCalls, statusCode, mySheetResult, saveResult, ssCount,
                    sheets, sheets0, folderCount, htmlFiles, uncaught,
                    labVars, docVars, storeVars, auxVars >>

main_report ==
    /\ UNCHANGED fetched
    /\ pc = "report"
    /\ log' = (IF IsSuccess(saveResult)
               THEN << "Operation Succeeded (including save):" >>
                        \o (IF IsSuccess(complexities)
                            THEN [i \in 1..Len(complexities.value) |->
                                     ReadingLine(complexities.value[i])]
                            ELSE << >>)
               ELSE << >>)
              \o (IF IsFailure(saveResult)
                  THEN << "Operation failed" >>
                  ELSE << >>)
    /\ pc' = "return"
    /\ UNCHANGED << entry, runs, apikey, dayOfWeek, hourOfDay, complexities,
                    steps, httpCalls, statusCode, mySheetResult, saveResult, ssCount,
                    sheets, sheets0, folderCount, htmlFiles, uncaught,
                    labVars, docVars, storeVars, auxVars >>

----------------------------------------------------------------------------
(* saveHtmlToDriveInFolder() of the archival script.                       *)

shouldRun_always(d, h) == TRUE

(* The time check: the value of shouldRun for weekday d and hour h. *)
shouldRun(d, h) ==
    IF d >= 2 /\ d <= 5
    THEN h >= 9 /\ h <= 21
    ELSE IF d = 6 \/ d = 7
    THEN h >= 9 /\ h <= 17
    ELSE FALSE

(* timestamp + "_PageContent_Code-" + responseCode + ".html" *)
FileName(timestamp, responseCode) ==
    timestamp \o "_PageContent_Code-" \o ToString(responseCode) \o ".html"

(* var now = new Date(); var dayOfWeek = ...; var hourOfDay = ...          *)
saveHtml_timeCheck ==
    /\ StartRun("saveHtmlToDriveInFolder")
    /\ UNCHANGED uncaught
    /\ \E d \in DaysOfWeek, h \in HoursOfDay :
         /\ dayOfWeek' = d
         /\ hourOfDay' = h
    /\ apikey' = Null
    /\ pc' = "shouldRun"
    /\ UNCHANGED << labVars, docVars, storeVars, auxVars >>

(* if (shouldRun) { ... } else { ... }: the property is read outside the   *)
(* try; inside it the folder is found or created, then the page is         *)
(* fetched, then the file is created.  fault is the backend call that      *)
(* raises, besides the fetch.                                              *)
saveHtml_body ==
    /\ UNCHANGED fetched
    /\ pc = "shouldRun"
    /\ IF shouldRun(dayOfWeek, hourOfDay)
       THEN \E k \in Keys,
               fault \in { "none", "getProperty", "getFoldersByName",
                           "createFolder", "createFile" } :
              LET running == << "Scheduled time (KST): Running script." >>
              IN  IF fault = "getProperty"
                  THEN /\ log' = running
                       /\ uncaught' = TRUE
                       /\ UNCHANGED << apikey, httpCalls, statusCode,
                                       folderCount, htmlFiles >>
                  ELSE IF Falsy(k)
                  THEN /\ apikey' = k
                       /\ log' = running \o << "Error: API key not found." >>
                       /\ UNCHANGED << httpCalls, statusCode, folderCount,
                                       htmlFiles, uncaught >>
                  ELSE IF \/ fault = "getFoldersByName"
                          \/ folderCount = 0 /\ fault = "createFolder"
                  THEN /\ apikey' = k
                       /\ log' = running \o << "Error: " >>
                       /\ UNCHANGED << httpCalls, statusCode, folderCount,
                                       htmlFiles, uncaught >>
                  ELSE \E exchange \in ArchiveExchanges :
                         /\ apikey' = k
                         /\ folderCount' = IF folderCount > 0
                                           THEN folderCount
                                           ELSE folderCount + 1
                         /\ httpCalls' = httpCalls + 1
                         /\ UNCHANGED uncaught
                         /\ IF exchange.kind = "throw"
                            THEN /\ log' = running \o << "Error: " >>
                                 /\ UNCHANGED << statusCode, htmlFiles >>
                            ELSE IF fault = "createFile"
                            THEN /\ statusCode' = exchange.val.responseCode
                                 /\ log' = running \o << "Error: " >>
                                 /\ UNCHANGED htmlFiles
                            ELSE /\ htmlFiles' = Append(htmlFiles,
                                       [name |-> FileName(Timestamp(runs),
                                                    exchange.val.responseCode),
                                        content |-> exchange.val.contentText])
                                 /\ statusCode' = exchange.val.responseCode
                                 /\ log' = running \o << "Successfully saved: " >>
       ELSE /\ log' = << "Outside of scheduled KST hours. Skipping execution." >>
            /\ UNCHANGED << apikey, httpCalls, statusCode, folderCount,
                            htmlFiles, uncaught >>
    /\ pc' = "return"
    /\ UNCHANGED << entry, runs, dayOfWeek, hourOfDay, complexities, steps,
                    mySheetResult, saveResult, ssCount, sheets, sheets0,
                    labVars, docVars, storeVars, auxVars >>

(* The entry point returns to the trigger: its locals are gone. *)
Return_toTrigger ==
    /\ fetched' = NoResult
    /\ pc = "return"
    /\ pc' = "idle"
    /\ entry' = "none"
    /\ apikey' = Null
    /\ dayOfWeek' = 0
    /\ hourOfDay' = 0
    /\ complexities' = NoResult
    /\ mySheetResult' = NoResult
    /\ saveResult' = NoResult
    /\ steps' = << >>
    /\ httpCalls' = 0
    /\ statusCode' = 0
    /\ sheets0' = sheets
    /\ log' = << >>
    /\ uncaught' = FALSE
    /\ UNCHANGED << runs, ssCount, sheets, folderCount, htmlFiles,
                    labVars, docVars, storeVars, auxVars >>

----------------------------------------------------------------------------
(* Spec: the entry points, run one after the other by the trigger.         *)

NoCall == [op |-> "none"]

LabIdle ==
    /\ res0 = NoResult
    /\ res = NoResult
    /\ lastCall = NoCall
    /\ chainLen = 0

DocIdle ==
    /\ doc = << >>
    /\ extracted = NoResult
    /\ fixture = << >>
    /\ traffic = NoResult

NameIdle ==
    /\ clock = NoResult
    /\ archived = NoResult
    /\ recovered = NoResult

WriterIdle ==
    /\ table = << >>
    /\ writers = << >>
    /\ written = << >>
    /\ overlapped = FALSE

FolderIdle ==
    /\ files = << >>
    /\ subFolders = { }
    /\ validFileIds = << >>
    /\ folderPc = "idle"
    /\ passes = 0
    /\ folderCall = NoCall
    /\ appended = << >>
    /\ raised = FALSE
    /\ seen = { }
    /\ passNew = FALSE

LibIdle ==
    /\ libCount = 0
    /\ libSheets = << >>
    /\ libSheets0 = << >>
    /\ libHandle = ""
    /\ strays = 0

AuxIdle == NameIdle /\ WriterIdle /\ FolderIdle /\ LibIdle

StoreIdle ==
    /\ handle = ""
    /\ storeCall = NoCall
    /\ storeOps = 0

RunIdle ==
    /\ pc = "idle"
    /\ entry = "none"
    /\ runs = 0
    /\ apikey = Null
    /\ dayOfWeek = 0
    /\ hourOfDay = 0
    /\ complexities = NoResult
    /\ steps = << >>
    /\ httpCalls = 0
    /\ statusCode = 0
    /\ mySheetResult = NoResult
    /\ saveResult = NoResult
    /\ folderCount = 0
    /\ htmlFiles = << >>
    /\ log = << >>
    /\ uncaught = FALSE
    /\ fetched = NoResult

PipeInit ==
    /\ RunIdle
    /\ ssCount = 0
    /\ sheets = << >>
    /\ sheets0 = << >>

Init == PipeInit /\ LabIdle /\ DocIdle /\ StoreIdle /\ AuxIdle

Next ==
    \/ main_getProperty
    \/ main_fromApiKey
    \/ main_hasValidTime
    \/ main_fromScraperAPI
    \/ main_hasValidCode
    \/ main_fromResponse
    \/ main_fromNames
    \/ main_saveFrom
    \/ main_report
    \/ saveHtml_timeCheck
    \/ saveHtml_body
    \/ Return_toTrigger

Spec == Init /\ [][Next]_vars

----------------------------------------------------------------------------
(* SpecResult: bind and map on arbitrary Results with arbitrary functions. *)

Values == 1..MaxValue

Errors == 1..MaxError

Results == { Success(v) : v \in Values } \cup { Failure(e) : e \in Errors }

(* Functions handed to bind: return a Result, or throw. *)
BindFns ==
    [Values -> { Return(r) : r \in Results } \cup { Throw(e) : e \in Errors }]

(* Functions handed to map: return a value, or throw. *)
MapFns ==
    [Values -> { Return(v) : v \in Values } \cup { Throw(e) : e \in Errors }]

(* What fn does when applied to the value self holds. *)
Applied(self, fn) ==
    IF IsSuccess(self) THEN fn[self.value] ELSE [kind |-> "none"]

Apply(op, call, fn) ==
    /\ chainLen < MaxChain
    /\ chainLen' = chainLen + 1
    /\ lastCall' = [op |-> op, self |-> res, fv |-> Applied(res, fn),
                    calls |-> call.calls, out |-> call.out]
    /\ res' = IF call.out.kind = "return" THEN call.out.val ELSE res
    /\ UNCHANGED << res0, pipeVars, docVars, storeVars, auxVars >>

Result_bind == \E fn \in BindFns : Apply("bind", bind(res, fn), fn)

Result_map == \E fn \in MapFns : Apply("map", map(res, fn), fn)

InitResult ==
    /\ PipeInit
    /\ DocIdle
    /\ StoreIdle
    /\ AuxIdle
    /\ res0 \in Results
    /\ res = res0
    /\ lastCall = NoCall
    /\ chainLen = 0

NextResult == Result_bind \/ Result_map

SpecResult == InitResult /\ [][NextResult]_vars

----------------------------------------------------------------------------
(* SpecExtract: Complexity.fromResponse on arbitrary documents.            *)

DocTokens ==
    { FloorTok("1F"), FloorTok("B1"),
      PinTok("smooth", "hall"), PinTok("busy", "stacks"),
      EdivTok, TextTok }

Docs == UNION { [1..n -> DocTokens] : n \in 0..MaxDocLen }

Extract ==
    /\ extracted = NoResult
    /\ extracted' = fromResponse(Response(Timestamp(1), doc, 200))
    /\ UNCHANGED << doc, fixture, traffic, pipeVars, labVars, storeVars, auxVars >>

InitExtract ==
    /\ PipeInit
    /\ LabIdle
    /\ StoreIdle
    /\ AuxIdle
    /\ doc \in Docs
    /\ extracted = NoResult
    /\ fixture = << >>
    /\ traffic = NoResult

NextExtract == Extract

SpecExtract == InitExtract /\ [][NextExtract]_vars

----------------------------------------------------------------------------
(* SpecFixture: both extractors on synthetic pages of N floor blocks with  *)
(* M pins each.                                                            *)

FixtureFloors == { "1F", "B1" }

FixturePins == { PinTok("smooth", "hall"), PinTok("busy", "stacks") }

FloorBlocks(m) == [id : FixtureFloors, pins : [1..m -> FixturePins]]

Fixtures ==
    UNION { [1..n -> FloorBlocks(m)] : n \in 0..MaxFloors, m \in 0..MaxPins }

(* The markup of one floor block: header, sub-region, closing tag, and the *)
(* text up to the next block.                                              *)
RenderBlock(block) ==
    << FloorTok(block.id), TextTok >> \o block.pins \o << EdivTok, TextTok >>

RECURSIVE Render(_)
Render(blocks) ==
    IF blocks = << >>
    THEN << >>
    ELSE RenderBlock(Head(blocks)) \o Render(Tail(blocks))

Fixture_fromResponse ==
    /\ extracted = NoResult
    /\ extracted' = fromResponse(Response(Timestamp(1), doc, 200))
    /\ UNCHANGED << doc, fixture, traffic, pipeVars, labVars, storeVars, auxVars >>

Fixture_parseTraffic ==
    /\ traffic = NoResult
    /\ traffic' = Return(parseTrafficFromHtmlContent(doc))
    /\ UNCHANGED << doc, fixture, extracted, pipeVars, labVars, storeVars, auxVars >>

InitFixture ==
    /\ PipeInit
    /\ LabIdle
    /\ StoreIdle
    /\ AuxIdle
    /\ fixture \in Fixtures
    /\ doc = Render(fixture)
    /\ extracted = NoResult
    /\ traffic = NoResult

NextFixture == Fixture_fromResponse \/ Fixture_parseTraffic

SpecFixture == InitFixture /\ [][NextFixture]_vars

----------------------------------------------------------------------------
(* SpecStore: the store functions of both scripts applied, in any order,   *)
(* to one Drive.  The functions of class MySheet work on the spreadsheet   *)
(* "SJCityLib" of the Drive root (ssCount, sheets), the functions of       *)
(* parseHtml.js on the spreadsheet "SJLib" of the source folder (libCount, *)
(* libSheets).  Rows are appended through the sheet the last               *)
(* locate-or-create call of the script returned, as both main functions    *)
(* do.                                                                     *)

(* Stores a behaviour starts from: no spreadsheet; a new spreadsheet; one  *)
(* with an empty "Complexity" sheet beside "Sheet1", or alone.             *)
InitialStores ==
    { << 0, << >> >>,
      << 1, NewSpreadsheet >>,
      << 1, insertSheet(NewSpreadsheet, "Complexity") >>,
      << 1, deleteSheet(insertSheet(NewSpreadsheet, "Complexity"), "Sheet1") >> }

SheetNames == { "Complexity", "Sheet1" }

(* Results handed to saveFrom. *)
SaveInputs ==
    { Failure(<< "No content in the response" >>),
      Failure(<< "Response code was <code>, not 2XX.", 503 >>),
      Success(<< >>),
      Success(<< Complexity(Timestamp(1), "1F", "hall", "smooth") >>),
      Success(<< Complexity(Timestamp(2), "1F", "hall", "busy"),
                 Complexity(Timestamp(2), "B1", "stacks", "smooth") >>) }

(* Files handed to parseAndSaveData. *)
StoreFiles ==
    { [name |-> FileName(Timestamp(3), 200), readable |-> TRUE,
       content |-> << FloorTok("B1"), PinTok("busy", "stacks"), EdivTok >>],
      [name |-> FileName(Timestamp(3), 200), readable |-> TRUE,
       content |-> << FloorTok("1F"), EdivTok >>],
      [name |-> "index.html", readable |-> TRUE,
       content |-> << FloorTok("1F"), PinTok("smooth", "hall"), EdivTok >>] }

(* The operation and the sheet name of a call record. *)
CallKey(call) ==
    IF call.op = "none"
    THEN << "none", "", 0, "none" >>
    ELSE << call.op, call.name, call.count0, call.fault >>

(* A call of a store function: count0 and before are the count and the     *)
(* book of the spreadsheet the function works on, as the call found them.  *)
StoreStep(op, name, arg, fault, count0, before, out) ==
    /\ storeOps' = storeOps + 1
    /\ storeCall' = [op |-> op, name |-> name, arg |-> arg, count0 |-> count0,
                     before |-> before, out |-> out, fault |-> fault,
                     prev |-> CallKey(storeCall)]
    /\ UNCHANGED << entryVars, sheets0, libSheets0, labVars, docVars,
                    nameVars, writerVars, scanVars >>

Store_fromFileName ==
    /\ storeOps < MaxStoreOps
    /\ \E fault \in FileFaults \cup { "none" } :
         LET r == fromFileName(ssCount, sheets, "SJCityLib", "", fault)
         IN  /\ StoreStep("fromFileName", "", "SJCityLib", fault, ssCount,
                          sheets, r.out)
             /\ ssCount' = r.ssCount
             /\ sheets' = r.sheets
    /\ UNCHANGED << handle, libCount, libSheets, libHandle, strays >>

Store_getOrCreateSpreadsheet ==
    /\ storeOps < MaxStoreOps
    /\ \E fault \in LibFaults \cup { "none" } :
         LET r == getOrCreateSpreadsheet(libCount, libSheets, fault)
         IN  /\ StoreStep("getOrCreateSpreadsheet", "", "SJLib", fault,
                          libCount, libSheets, r.out)
             /\ libCount' = r.ssCount
             /\ libSheets' = r.sheets
             /\ strays' = strays + r.strays
    /\ UNCHANGED << ssCount, sheets, handle, libHandle >>

Store_fromSheetName ==
    /\ storeOps < MaxStoreOps
    /\ ssCount > 0
    /\ \E sheetName \in SheetNames, fault \in SheetFaults \cup { "none" } :
         LET r == fromSheetName(sheets, "SJCityLib", sheetName, fault)
         IN  /\ StoreStep("fromSheetName", sheetName, "SJCityLib", fault,
                          ssCount, sheets, r.out)
             /\ sheets' = r.sheets
             /\ handle' = IF IsSuccess(r.out) THEN r.out.value.sheet ELSE ""
    /\ UNCHANGED << ssCount, libCount, libSheets, libHandle, strays >>

Store_getOrCreateSheet ==
    /\ storeOps < MaxStoreOps
    /\ libCount > 0
    /\ \E fault \in SheetFaults \cup { "none" } :
         LET r == getOrCreateSheet(libSheets, fault)
         IN  /\ StoreStep("getOrCreateSheet", "Complexity", "SJLib", fault,
                          libCount, libSheets, r.out)
             /\ libSheets' = r.sheets
             /\ libHandle' = IF r.out.kind = "return" THEN r.out.val ELSE ""
    /\ UNCHANGED << ssCount, sheets, handle, libCount, strays >>

Store_saveFrom ==
    /\ storeOps < MaxStoreOps
    /\ handle # ""
    /\ \E complexityResult \in SaveInputs, fault \in SaveFaults \cup { "none" } :
         LET r == saveFrom(MySheet("SJCityLib", handle), complexityResult,
                           sheets, fault)
         IN  /\ StoreStep("saveFrom", handle, complexityResult, fault,
                          ssCount, sheets, r.out)
             /\ sheets' = r.sheets
    /\ UNCHANGED << ssCount, handle, libCount, libSheets, libHandle, strays >>

Store_parseAndSaveData ==
    /\ storeOps < MaxStoreOps
    /\ libHandle # ""
    /\ \E file \in StoreFiles, fault \in ParseFaults \cup { "none" } :
         LET r == parseAndSaveData(file, libHandle, libSheets, fault)
         IN  /\ StoreStep("parseAndSaveData", libHandle, file, fault,
                          libCount, libSheets, r.moved)
             /\ libSheets' = r.sheets
    /\ UNCHANGED << ssCount, sheets, handle, libCount, libHandle, strays >>

InitStore ==
    /\ RunIdle
    /\ LabIdle
    /\ DocIdle
    /\ StoreIdle
    /\ NameIdle
    /\ WriterIdle
    /\ FolderIdle
    /\ \E store \in InitialStores, lib \in InitialStores :
         /\ store[1] = 0 \/ lib[1] = 0
         /\ ssCount = store[1]
         /\ sheets = store[2]
         /\ sheets0 = store[2]
         /\ libCount = lib[1]
         /\ libSheets = lib[2]
         /\ libSheets0 = lib[2]
    /\ libHandle = ""
    /\ strays = 0

NextStore ==
    \/ Store_fromFileName
    \/ Store_getOrCreateSpreadsheet
    \/ Store_fromSheetName
    \/ Store_getOrCreateSheet
    \/ Store_saveFrom
    \/ Store_parseAndSaveData

SpecStore == InitStore /\ [][NextStore]_vars

----------------------------------------------------------------------------
(* SpecName: saveHtmlToDriveInFolder names a file after the clock and the  *)
(* status code, and parseDateTimeFromFilename reads the name again.        *)

(* Readings of the wall clock in Asia/Seoul. *)
Clocks ==
    [year : { 1999, 2025 }, month : { 1, 12 }, day : { 1, 31 },
     hour : { 0, 23 }, minute : { 0, 59 }, second : { 0, 59 }]

(* var timestamp = Utilities.formatDate(new Date(), timeZone, ...);        *)
(* var fileName = timestamp + "_PageContent_Code-" + responseCode + ...    *)
Name_createFile ==
    /\ archived = NoResult
    /\ LET timestamp == formatDate(clock.now)
       IN  archived' = [timestamp |-> timestamp,
                        name |-> FileName(timestamp, clock.responseCode)]
    /\ UNCHANGED << clock, recovered, pipeVars, labVars, docVars, storeVars,
                    writerVars, folderVars >>

(* const dateTimeString = parseDateTimeFromFilename(fileName) *)
Name_parseDateTime ==
    /\ archived # NoResult
    /\ recovered = NoResult
    /\ recovered' = [val |-> parseDateTimeFromFilename(archived.name)]
    /\ UNCHANGED << clock, archived, pipeVars, labVars, docVars, storeVars,
                    writerVars, folderVars >>

InitName ==
    /\ PipeInit
    /\ LabIdle
    /\ DocIdle
    /\ StoreIdle
    /\ \E now \in Clocks, responseCode \in StatusCodes :
         clock = [now |-> now, responseCode |-> responseCode]
    /\ archived = NoResult
    /\ recovered = NoResult
    /\ WriterIdle
    /\ FolderIdle
    /\ LibIdle

NextName ==
    \/ Name_createFile
    \/ Name_parseDateTime

SpecName == InitName /\ [][NextName]_vars

----------------------------------------------------------------------------
(* SpecWriters: two invocations that append to the same sheet.  The append *)
(* is two calls of the backend, sheet.getLastRow() and then                *)
(* getRange(...).setValues(rowsToAdd); the scripts take no lock, so calls  *)
(* of the other invocation may come between them.                          *)

Writers == { 1, 2 }

(* The rows invocation number n appends: K readings of its timestamp. *)
BlockOf(n, k) ==
    [i \in 1..k |-> << Timestamp(n), "1F", ToString(i), "smooth" >>]

(* Invocations started so far: those that wrote and those that run. *)
Started ==
    Len(written) + Cardinality({ v \in Writers : writers[v].pc # "idle" })

(* The trigger starts an invocation; it reaches the append with K rows. *)
Writer_start(w) ==
    /\ writers[w].pc = "idle"
    /\ Started < MaxAppends
    /\ \E k \in 1..MaxBlock :
         writers' = [writers EXCEPT ![w] =
                        [pc |-> "getLastRow", row |-> 0,
                         rowsToAdd |-> BlockOf(Started + 1, k)]]
    /\ overlapped' = (overlapped \/ writers[3 - w].pc # "idle")
    /\ UNCHANGED << table, written, nameVars, pipeVars, labVars, docVars,
                    storeVars, folderVars >>

(* sheet.getLastRow() + 1 *)
Writer_getLastRow(w) ==
    /\ writers[w].pc = "getLastRow"
    /\ writers' = [writers EXCEPT ![w].pc = "setValues",
                                  ![w].row = Len(table) + 1]
    /\ UNCHANGED << table, written, overlapped, nameVars, pipeVars, labVars,
                    docVars, storeVars, folderVars >>

(* Variant of Writer_setValues: the block written below the rows the sheet *)
(* holds when the write is made.                                           *)
Writer_setValues_atEnd(w) ==
    /\ writers[w].pc = "setValues"
    /\ table' = setValues(table, Len(table) + 1, writers[w].rowsToAdd)
    /\ written' = Append(written, [writer |-> w, row |-> writers[w].row,
                                   rowsToAdd |-> writers[w].rowsToAdd])
    /\ writers' = [writers EXCEPT ![w].pc = "idle"]
    /\ UNCHANGED << overlapped, nameVars, pipeVars, labVars, docVars,
                    storeVars, folderVars >>

(* sheet.getRange(row, 1, rowsToAdd.length, 4).setValues(rowsToAdd) *)
Writer_setValues(w) ==
    /\ writers[w].pc = "setValues"
    /\ table' = setValues(table, writers[w].row, writers[w].rowsToAdd)
    /\ written' = Append(written, [writer |-> w, row |-> writers[w].row,
                                   rowsToAdd |-> writers[w].rowsToAdd])
    /\ writers' = [writers EXCEPT ![w].pc = "idle"]
    /\ UNCHANGED << overlapped, nameVars, pipeVars, labVars, docVars,
                    storeVars, folderVars >>

InitWriters ==
    /\ PipeInit
    /\ LabIdle
    /\ DocIdle
    /\ StoreIdle
    /\ NameIdle
    /\ FolderIdle
    /\ LibIdle
    /\ table \in { << Header >>, << Header, << Timestamp(0), "1F", "1", "busy" >> >> }
    /\ writers = [w \in Writers |-> [pc |-> "idle", row |-> 0, rowsToAdd |-> << >>]]
    /\ written = << >>
    /\ overlapped = FALSE

NextWriters ==
    \E w \in Writers :
        \/ Writer_start(w)
        \/ Writer_getLastRow(w)
        \/ Writer_setValues(w)

SpecWriters == InitWriters /\ [][NextWriters]_vars

----------------------------------------------------------------------------
(* SpecFolder: main() of the folder script, run again and again over a     *)
(* source folder into which files are dropped between the runs.  The       *)
(* spreadsheet "SJLib" lies in the source folder beside them.              *)

(* The files dropped: an archived page with readings, a page under a name  *)
(* without a timestamp, a page without readings, a page that cannot be     *)
(* read, and a file that is not HTML.                                      *)
FileKinds == { "page", "noDate", "noData", "unreadable", "notHtml" }

NewFile(id, kind) ==
    [id |-> id,
     mime |-> IF kind = "notHtml" THEN "text/plain" ELSE MimeHtml,
     name |-> IF kind = "noDate"
              THEN "index.html"
              ELSE FileName(Timestamp(id), IF kind = "noData" THEN 503 ELSE 200),
     content |-> IF kind = "noData"
                 THEN << TextTok >>
                 ELSE << FloorTok("1F"), PinTok("smooth", "hall"),
                         PinTok("busy", "desk"), EdivTok >>,
     readable |-> kind # "unreadable",
     parent |-> "source"]

(* The spreadsheet as a file of the source folder. *)
SpreadsheetFile ==
    [id |-> 0, mime |-> "application/vnd.google-apps.spreadsheet",
     name |-> "SJLib", content |-> << >>, readable |-> TRUE,
     parent |-> "source"]

(* sourceFolder.getFiles(): the files directly in the source folder. *)
getFiles ==
    (IF libCount > 0 THEN << SpreadsheetFile >> ELSE << >>)
        \o SelectSeq(files, LAMBDA f : f.parent = "source")

(* file.moveTo(folder) for the files of the given ids. *)
moveTo(all, ids, folder) ==
    [i \in 1..Len(all) |->
        IF all[i].id \in ids THEN [all[i] EXCEPT !.parent = folder] ELSE all[i]]

(* Calls of processHtmlFolder that may raise, for a listing: the calls     *)
(* before the loop, the calls on each file, and hasNext, which is called   *)
(* for each file and once behind the last.                                 *)
ProcessFaults(listing) ==
    { [call |-> c, index |-> 0] :
        c \in { "none", "sourceFolder.getFiles", "sourceFolder.getName",
                "errorFolder.getName" } }
      \cup { [call |-> c, index |-> i] :
               c \in { "next", "getName", "getId", "getMimeType", "moveTo" },
               i \in 1..Len(listing) }
      \cup { [call |-> "hasNext", index |-> i] : i \in 1..(Len(listing) + 1) }

(* A file is dropped into the source folder. *)
Folder_createFile ==
    /\ folderPc = "idle"
    /\ Len(files) < MaxFiles
    /\ \E kind \in FileKinds :
         files' = Append(files, NewFile(Len(files) + 1, kind))
    /\ appended' = Append(appended, 0)
    /\ UNCHANGED << subFolders, validFileIds, folderPc, passes, folderCall,
                    raised, seen, passNew, libVars, pipeVars, labVars,
                    docVars, storeVars, nameVars, writerVars >>

(* appended, seen, passNew and libSheets0 observe the runs in which no     *)
(* backend call has raised: each is kept up to the first raise and blank   *)
(* after it.                                                               *)
Observed(value, blank) == IF raised' THEN blank ELSE value

(* main up to step 2: the property FOLDER_ID, getFolderById, the           *)
(* spreadsheet, the sheet, the Done and Error folders.  The property is    *)
(* read outside the try; main returns when getOrCreateSpreadsheet returns  *)
(* null, and when its catch is reached.  out is "thrown" when the raise    *)
(* leaves main, "returned" when main has returned, "running" otherwise;    *)
(* a call has raised when main does not run on, and when "Sheet1" is left  *)
(* beside the sheet (the raise of deleteSheet is swallowed).  The call     *)
(* chosen to raise is one the run makes; "...#2" is the call made for the  *)
(* Error folder, after the one made for the Done folder.                   *)
Folder_main ==
    /\ folderPc = "idle"
    /\ passes < MaxPasses
    /\ passes' = passes + 1
    /\ passNew' = FALSE
    /\ \E folderId \in { Null, << "f" >> },
          fault \in { "none", "getProperty", "getFolderById",
                      "getFoldersByName", "createFolder",
                      "getFoldersByName#2", "createFolder#2" }
                        \cup LibFaults \cup SheetFaults :
         LET spreadsheet == getOrCreateSpreadsheet(libCount, libSheets, fault)
             sheet == getOrCreateSheet(spreadsheet.sheets, fault)
             doneFolder == getOrCreateSubFolder(subFolders, "Done", fault)
             errorFolder ==
                 getOrCreateSubFolder(doneFolder.folders, "Error",
                     CASE fault = "getFoldersByName#2" -> "getFoldersByName"
                       [] fault = "createFolder#2" -> "createFolder"
                       [] OTHER -> "none")
             ends(out, count, book, inRoot, folders) ==
                 /\ \/ fault = "none"
                    \/ out # "running"
                    \/ "Sheet1" \in DOMAIN book
                 /\ folderCall' = [op |-> "main", out |-> out]
                 /\ libCount' = count
                 /\ libSheets' = book
                 /\ strays' = strays + inRoot
                 /\ subFolders' = folders
                 /\ raised' = (\/ raised
                               \/ out # "running"
                               \/ "Sheet1" \in DOMAIN book)
                 /\ folderPc' = IF out = "running"
                                THEN "processHtmlFolder"
                                ELSE "idle"
         IN  IF fault = "getProperty"
             THEN ends("thrown", libCount, libSheets, 0, subFolders)
             ELSE IF Falsy(folderId)
             THEN /\ fault = "none"
                  /\ folderCall' = [op |-> "main", out |-> "returned"]
                  /\ UNCHANGED << libCount, libSheets, strays, subFolders,
                                  folderPc, raised >>
             ELSE IF fault = "getFolderById"
             THEN ends("returned", libCount, libSheets, 0, subFolders)
             ELSE IF spreadsheet.out = NullString
             THEN ends("returned", spreadsheet.ssCount, spreadsheet.sheets,
                       spreadsheet.strays, subFolders)
             ELSE IF sheet.out.kind = "throw"
             THEN ends("returned", spreadsheet.ssCount, sheet.sheets, 0,
                       subFolders)
             ELSE IF doneFolder.out.kind = "throw"
             THEN ends("returned", spreadsheet.ssCount, sheet.sheets, 0,
                       subFolders)
             ELSE IF errorFolder.out.kind = "throw"
             THEN ends("returned", spreadsheet.ssCount, sheet.sheets, 0,
                       doneFolder.folders)
             ELSE ends("running", spreadsheet.ssCount, sheet.sheets, 0,
                       errorFolder.folders)
    /\ libSheets0' = Observed(libSheets, << >>)
    /\ seen' = Observed(seen, { })
    /\ appended' = Observed(appended, [i \in 1..Len(files) |-> 0])
    /\ UNCHANGED << files, validFileIds, libHandle, pipeVars, labVars,
                    docVars, storeVars, nameVars, writerVars >>

(* const validFileIds = processHtmlFolder(sourceFolder, errorFolder) *)
Folder_processHtmlFolder ==
    /\ folderPc = "processHtmlFolder"
    /\ \E fault \in ProcessFaults(getFiles) :
         LET r == processHtmlFolder(getFiles, fault)
         IN  /\ fault.call = "none" \/ r.caught
             /\ files' = moveTo(files, r.toError, "Error")
             /\ validFileIds' = IF r.out.kind = "return" THEN r.out.val ELSE << >>
             /\ folderPc' = IF r.out.kind = "return"
                            THEN "parseAndSaveData"
                            ELSE "idle"
             /\ raised' = (raised \/ r.caught \/ r.out.kind = "throw")
             /\ folderCall' = [op |-> "processHtmlFolder", fault |-> fault,
                               listing |-> getFiles, before |-> files,
                               out |-> r.out, toError |-> r.toError,
                               caught |-> r.caught]
    /\ seen' = Observed(seen \cup { files[i].id : i \in 1..Len(files) }, { })
    /\ passNew' = Observed(\E i \in 1..Len(files) :
                               /\ files[i].parent = "source"
                               /\ files[i].id \notin seen,
                           FALSE)
    /\ appended' = Observed(appended, [i \in 1..Len(files) |-> 0])
    /\ libSheets0' = Observed(libSheets0, << >>)
    /\ UNCHANGED << subFolders, passes, libCount, libSheets, libHandle,
                    strays, pipeVars, labVars, docVars, storeVars, nameVars,
                    writerVars >>

(* validFileIds.forEach((fileId) => parseAndSaveData(fileId, sheet,        *)
(*                                                   doneFolder))          *)
Folder_parseAndSaveData ==
    /\ folderPc = "parseAndSaveData"
    /\ validFileIds # << >>
    /\ \E fault \in ParseFaults \cup { "none" } :
         LET fileId == Head(validFileIds)
             r == parseAndSaveData(files[fileId], "Complexity", libSheets,
                                   fault)
         IN  /\ libSheets' = r.sheets
             /\ files' = IF r.moved
                         THEN moveTo(files, { fileId }, "Done")
                         ELSE files
             /\ raised' = (raised \/ fault # "none")
             /\ appended' =
                    Observed([appended EXCEPT ![fileId] =
                                 IF r.sheets # libSheets THEN @ + 1 ELSE @],
                             [i \in 1..Len(files) |-> 0])
             /\ folderCall' = [op |-> "parseAndSaveData", fault |-> fault,
                               fileId |-> fileId, before |-> libSheets,
                               out |-> r.moved]
    /\ validFileIds' = Tail(validFileIds)
    /\ seen' = Observed(seen, { })
    /\ passNew' = Observed(passNew, FALSE)
    /\ libSheets0' = Observed(libSheets0, << >>)
    /\ UNCHANGED << subFolders, folderPc, passes, libCount, libHandle,
                    strays, pipeVars, labVars, docVars, storeVars, nameVars,
                    writerVars >>

(* Step 5 of main: the sheet sorted by its first column; main returns.     *)
(* getLastRow is called first; getRange and sort are called when the sheet *)
(* holds more than the header.  A raise is caught by main, the sheet left  *)
(* as it was.                                                              *)
Folder_sort ==
    /\ folderPc = "parseAndSaveData"
    /\ validFileIds = << >>
    /\ \E fault \in { "none", "getLastRow", "getRange", "sort" } :
         LET caught == \/ fault = "getLastRow"
                       \/ /\ getLastRow(libSheets, "Complexity") > 1
                          /\ fault \in { "getRange", "sort" }
         IN  /\ fault = "none" \/ caught
             /\ libSheets' = IF caught
                             THEN libSheets
                             ELSE [libSheets EXCEPT !["Complexity"] =
                                      sortSheet(@)]
             /\ raised' = (raised \/ caught)
             /\ folderCall' = [op |-> "sort", caught |-> caught]
    /\ folderPc' = "idle"
    /\ seen' = Observed(seen, { })
    /\ passNew' = Observed(passNew, FALSE)
    /\ appended' = Observed(appended, [i \in 1..Len(files) |-> 0])
    /\ libSheets0' = Observed(libSheets0, << >>)
    /\ UNCHANGED << files, subFolders, validFileIds, passes, libCount,
                    libHandle, strays, pipeVars, labVars, docVars, storeVars,
                    nameVars, writerVars >>

InitFolder ==
    /\ PipeInit
    /\ LabIdle
    /\ DocIdle
    /\ StoreIdle
    /\ AuxIdle

NextFolder ==
    \/ Folder_createFile
    \/ Folder_main
    \/ Folder_processHtmlFolder
    \/ Folder_parseAndSaveData
    \/ Folder_sort

SpecFolder == InitFolder /\ [][NextFolder]_vars

----------------------------------------------------------------------------
(* Properties *)

(* The operating window of the specification: Mon-Fri 9..21, Sat-Sun 9..17 *)
OperatingWindow(d, h) ==
    \/ d \in 1..5 /\ 9 <= h /\ h <= 21
    \/ d \in 6..7 /\ 9 <= h /\ h <= 17

InMain == entry = "main"

InArchive == entry = "saveHtmlToDriveInFolder"

(* The client main's gate is invoked on. *)
Client == ScraperAPI(Timestamp(runs), TargetUrl, apikey)

(* main's gate has just been invoked on the weekday and hour of the state. *)
GateInvoked == InMain /\ pc = "fromScraperAPI" /\ dayOfWeek # 0

(* C1: for every KST weekday 1..7 and hour 0..23, hasValidTime returns     *)
(* Ok(self) exactly when the pair is in the operating window (Mon-Fri      *)
(* 9..21, Sat-Sun 9..17) and otherwise Err naming the rejected pair.       *)
C1_GateMatchesTable ==
    GateInvoked =>
        IF OperatingWindow(dayOfWeek, hourOfDay)
        THEN complexities = Success(Client)
        ELSE complexities =
                 Failure(<< "Outside of scheduled KST hours", dayOfWeek,
                            hourOfDay >>)

C1_Witness ==
    /\ GateInvoked
    /\ dayOfWeek = 5
    /\ hourOfDay = 21
    /\ IsSuccess(complexities)

(* The archival entry point entered its scrape branch. *)
ArchiveRan ==
    log # << >> /\ log[1] = "Scheduled time (KST): Running script."

(* C2: saveHtmlToDriveInFolder performs the scrape exactly when the KST    *)
(* weekday and hour are inside the operating window, for all 7 x 24 pairs. *)
C2_ArchiveGateMatchesTable ==
    (InArchive /\ pc = "return") =>
        (ArchiveRan <=> OperatingWindow(dayOfWeek, hourOfDay))

(* C3: bind and map on an Err return that same Err and never invoke the    *)
(* function they are given; a chain started from an Err ends in that Err.  *)
C3_ErrIsAbsorbing ==
    /\ (lastCall.op # "none" /\ IsFailure(lastCall.self)) =>
           /\ lastCall.out = Return(lastCall.self)
           /\ lastCall.calls = << >>
    /\ (res0 # NoResult /\ IsFailure(res0)) => res = res0

C3_Witness ==
    /\ chainLen >= 2
    /\ IsFailure(res0)
    /\ lastCall.op = "bind"

(* C4: when the function handed to map or bind on an Ok raises, the call   *)
(* returns an Err wrapping what was raised; nothing is thrown to the       *)
(* caller.                                                                 *)
C4_RaiseBecomesErr ==
    (lastCall.op # "none" /\ IsSuccess(lastCall.self)
       /\ lastCall.fv.kind = "throw") =>
        lastCall.out = Return(Failure(lastCall.fv.err))

C4_Witness ==
    /\ lastCall.op = "map"
    /\ IsSuccess(lastCall.self)
    /\ lastCall.fv.kind = "throw"
    /\ IsFailure(res)

(* The steps of main's chain, in the order the chain is written. *)
ChainOrder ==
    << "fromApiKey", "hasValidTime", "fromScraperAPI", "hasValidCode",
       "fromResponse" >>

(* Positions of main at which the first k steps of the chain are behind.   *)
StepsBehind ==
    CASE pc = "fromApiKey" -> 0
      [] pc = "hasValidTime" -> 1
      [] pc = "fromScraperAPI" -> 2
      [] pc = "hasValidCode" -> 3
      [] pc = "fromResponse" -> 4
      [] OTHER -> 5

(* The step whose code builds the given error. *)
OriginOf(error) ==
    CASE error[1] \in { "API key is missing or empty.",
                        "URL is missing or empty." } -> "fromApiKey"
      [] error[1] = "Outside of scheduled KST hours" -> "hasValidTime"
      [] error[1] = "Exception: request failed" -> "fromScraperAPI"
      [] error[1] = "Response code was <code>, not 2XX." -> "hasValidCode"
      [] error[1] \in { "No content in the response",
                        "No complexity data found in the content" }
           -> "fromResponse"
      [] OTHER -> "unknown"

(* C5: the chain runs construct, gate, fetch, validate, extract in that    *)
(* order; a step runs only if every earlier step returned Ok; the chain's  *)
(* value is the Err of the first failing step, or the extractor's Ok.      *)
C5_ChainOrderAndShortCircuit ==
    (InMain /\ steps # << >>) =>
        /\ Len(steps) <= StepsBehind
        /\ steps = SubSeq(ChainOrder, 1, Len(steps))
        /\ IsSuccess(complexities) => Len(steps) = StepsBehind
        /\ IsFailure(complexities) =>
               OriginOf(complexities.error) = steps[Len(steps)]
        /\ (StepsBehind = 5 /\ IsSuccess(complexities)) =>
               /\ steps = ChainOrder
               /\ Len(complexities.value) >= 1

C5_Witness ==
    /\ InMain
    /\ pc = "fromNames"
    /\ steps = << "fromApiKey", "hasValidTime", "fromScraperAPI" >>
    /\ IsFailure(complexities)

(* main's gate rejected the weekday and hour of this run. *)
MainGateRejected ==
    /\ InMain
    /\ complexities # NoResult
    /\ IsFailure(complexities)
    /\ complexities.error[1] = "Outside of scheduled KST hours"

(* The archival entry point took its skip branch. *)
ArchiveSkipped ==
    /\ InArchive
    /\ log = << "Outside of scheduled KST hours. Skipping execution." >>

(* C6: when the time-window gate rejects the weekday and hour, the         *)
(* invocation makes no outbound HTTP call, in main and in the archival     *)
(* entry point.                                                            *)
C6_RejectedMeansNoHttp ==
    /\ MainGateRejected => httpCalls = 0
    /\ ArchiveSkipped => httpCalls = 0
    /\ (InArchive /\ pc = "return"
          /\ ~OperatingWindow(dayOfWeek, hourOfDay)) => httpCalls = 0

C6_Witness ==
    /\ MainGateRejected
    /\ pc = "return"
    /\ complexities.error = << "Outside of scheduled KST hours", 5, 22 >>
    /\ httpCalls = 0

(* The string is null, empty or whitespace only. *)
Blank(x) == x = Null \/ \A i \in 1..Len(x) : x[i] = " "

(* C7: with a missing, empty or blank key, or an empty or blank URL,       *)
(* fromApiKey returns Err with a message, and the run makes no outbound    *)
(* HTTP call; the archival entry point makes none when the key is missing. *)
C7_BlankKeyMeansNoHttp ==
    /\ \A u \in StringsOver({ " ", "u" }), k \in StringsOver({ " ", "k" }) :
           (Blank(k) \/ Blank(u)) =>
               fromApiKey(u, k, Timestamp(runs)) \in
                   { Failure(<< "API key is missing or empty." >>),
                     Failure(<< "URL is missing or empty." >>) }
    /\ (InMain /\ steps # << >> /\ Blank(apikey)) =>
           /\ complexities = Failure(<< "API key is missing or empty." >>)
           /\ httpCalls = 0
    /\ (InArchive /\ apikey = Null) => httpCalls = 0

C7_Witness ==
    /\ InMain
    /\ pc = "return"
    /\ apikey = << " ", " " >>
    /\ IsFailure(complexities)
    /\ httpCalls = 0

(* C8: hasValidCode returns Ok of the same response exactly when           *)
(* 200 <= statusCode < 300, and otherwise Err whose message holds the      *)
(* status code.                                                            *)
C8_ValidCodeIs2xx ==
    [][(InMain /\ pc = "hasValidCode" /\ IsSuccess(complexities)) =>
          LET response == complexities.value
          IN  IF 200 <= response.responseCode /\ response.responseCode < 300
              THEN complexities' = Success(response)
              ELSE /\ IsFailure(complexities')
                   /\ complexities'.error[2] = response.responseCode]_vars

C8_Witness ==
    /\ InMain
    /\ pc = "fromResponse"
    /\ IsFailure(complexities)
    /\ complexities.error = << "Response code was <code>, not 2XX.", 503 >>

(* The run's fetch completed with a status code outside 200..299. *)
Non2xxRun == InMain /\ statusCode # 0 /\ ~(200 <= statusCode /\ statusCode < 300)

(* C9, as stated: when the fetch completes with a non-2xx status code the  *)
(* invocation of main performs no write to the destination store.          *)
C9_NoStoreWrite ==
    Non2xxRun => (sheets = sheets0)

(* Rows of a sheet other than the header row. *)
DataRows(rows) == SelectSeq(rows, LAMBDA row : row # Header)

(* C9, amended: when the fetch completes with a non-2xx status code the    *)
(* invocation of main writes no reading row: every sheet holds the reading *)
(* rows it held when the invocation started, a new sheet none.             *)
C9_NoReadingRowWritten ==
    Non2xxRun =>
        \A n \in DOMAIN sheets :
            DataRows(sheets[n]) =
                IF n \in DOMAIN sheets0 THEN DataRows(sheets0[n]) ELSE << >>

C9_Witness ==
    /\ Non2xxRun
    /\ statusCode = 503
    /\ pc = "return"
    /\ IsSuccess(mySheetResult)
    /\ IsFailure(saveResult)
    /\ sheets # sheets0

(* C10: fromResponse returns Err for empty content, Err when non-empty     *)
(* content yields no reading, and Ok only with at least one reading.       *)
C10_NeverOkEmpty ==
    extracted # NoResult =>
        /\ doc = << >> =>
               extracted = Failure(<< "No content in the response" >>)
        /\ (doc # << >> /\ floorScan(doc, 1, Timestamp(1)) = << >>) =>
               extracted = Failure(<< "No complexity data found in the content" >>)
        /\ (\A i \in 1..Len(doc) : doc[i][1] # "pin") => IsFailure(extracted)
        /\ IsSuccess(extracted) => Len(extracted.value) >= 1

C10_Witness ==
    /\ extracted = Failure(<< "No complexity data found in the content" >>)
    /\ doc = << PinTok("smooth", "hall"), EdivTok >>

----------------------------------------------------------------------------
(* Extraction of fixtures *)

(* Floor blocks of the fixture, and pins of each of them. *)
FloorCount == Len(fixture)

PinCount == IF fixture = << >> THEN 0 ELSE Len(fixture[1].pins)

(* The readings fromResponse delivered (none when it returned a Failure). *)
Readings == IF IsSuccess(extracted) THEN extracted.value ELSE << >>

(* Occurrences of x in the sequence. *)
Occurrences(seq, x) == Cardinality({ k \in 1..Len(seq) : seq[k] = x })

(* Pins of the fixture that are pin p inside a floor block with id f. *)
PinsOf(f, p) ==
    { ij \in (1..FloorCount) \X (1..PinCount) :
        fixture[ij[1]].id = f /\ fixture[ij[1]].pins[ij[2]] = p }

(* C11: for content of N floor blocks with M pins each, extraction yields  *)
(* exactly N x M readings; every reading carries the id of the floor block *)
(* enclosing its pin and the fetch's timestamp, and no pin is attributed   *)
(* to another floor.                                                       *)
C11_FloorsTimesPins ==
    /\ extracted # NoResult =>
           /\ Len(Readings) = FloorCount * PinCount
           /\ \A k \in 1..Len(Readings) : Readings[k].timestamp = Timestamp(1)
           /\ \A f \in FixtureFloors, p \in FixturePins :
                  Occurrences(Readings,
                              Complexity(Timestamp(1), f, p[3], p[2]))
                      = Cardinality(PinsOf(f, p))
    /\ traffic # NoResult =>
           /\ Len(traffic.val) = FloorCount * PinCount
           /\ \A f \in FixtureFloors, p \in FixturePins :
                  Occurrences(traffic.val, TrafficInfo(f, p[3], p[2]))
                      = Cardinality(PinsOf(f, p))

C11_Witness ==
    /\ FloorCount = 2
    /\ PinCount = 2
    /\ fixture[1].id = "1F"
    /\ fixture[2].id = "B1"
    /\ fixture[1].pins # fixture[2].pins
    /\ IsSuccess(extracted)
    /\ Len(extracted.value) = 4
    /\ traffic # NoResult

(* C12: readings come in floor-then-pin document order: reading number     *)
(* (i - 1) * M + j is the one of pin j of floor block i.                   *)
C12_DocumentOrder ==
    /\ extracted # NoResult =>
           \A i \in 1..FloorCount, j \in 1..PinCount :
               /\ (i - 1) * PinCount + j <= Len(Readings)
               /\ Readings[(i - 1) * PinCount + j] =
                      Complexity(Timestamp(1), fixture[i].id,
                                 fixture[i].pins[j][3], fixture[i].pins[j][2])
    /\ traffic # NoResult =>
           \A i \in 1..FloorCount, j \in 1..PinCount :
               /\ (i - 1) * PinCount + j <= Len(traffic.val)
               /\ traffic.val[(i - 1) * PinCount + j] =
                      TrafficInfo(fixture[i].id, fixture[i].pins[j][3],
                                  fixture[i].pins[j][2])

C12_Witness ==
    /\ FloorCount = 2
    /\ PinCount = 2
    /\ fixture[1].pins = << PinTok("smooth", "hall"), PinTok("busy", "stacks") >>
    /\ fixture[2].pins = << PinTok("busy", "stacks"), PinTok("smooth", "hall") >>
    /\ fixture[1].id # fixture[2].id
    /\ IsSuccess(extracted)
    /\ extracted.value[2].status = "busy"
    /\ extracted.value[3].status = "busy"
    /\ traffic # NoResult
    /\ Len(traffic.val) = 4

----------------------------------------------------------------------------
(* The store *)

IsSaveFrom == storeCall.op = "saveFrom"

(* No backend call was made to raise during the call. *)
BackendQuiet == storeCall.op # "none" /\ storeCall.fault = "none"

(* The call was made by a function of parseHtml.js, on "SJLib". *)
OnLib ==
    storeCall.op \in { "getOrCreateSpreadsheet", "getOrCreateSheet",
                       "parseAndSaveData" }

(* The spreadsheet the call worked on, as the call left it. *)
BookAfter == IF OnLib THEN libSheets ELSE sheets

CountAfter == IF OnLib THEN libCount ELSE ssCount

(* The sheet rows the call found, and the rows it left. *)
RowsBefore == storeCall.before[storeCall.name]

RowsAfter == BookAfter[storeCall.name]

(* Every sheet but the one the call was made on is as the call found it. *)
OtherSheetsKept ==
    /\ DOMAIN BookAfter = DOMAIN storeCall.before
    /\ \A n \in DOMAIN BookAfter \ { storeCall.name } :
           BookAfter[n] = storeCall.before[n]

(* The rows after the call are the rows before it followed by the K rows   *)
(* given, in rows lastRow + 1 .. lastRow + K.                              *)
AppendedBlock(rows) ==
    /\ Len(RowsAfter) = Len(RowsBefore) + Len(rows)
    /\ \A i \in 1..Len(RowsBefore) : RowsAfter[i] = RowsBefore[i]
    /\ \A i \in 1..Len(rows) : RowsAfter[Len(RowsBefore) + i] = rows[i]

(* C13: saveFrom given Ok of no readings returns Ok and writes no row;     *)
(* given Ok of K >= 1 readings it writes rows lastRow+1 .. lastRow+K, row  *)
(* i being [timestamp, floor, location, status] of reading i, and leaves   *)
(* every earlier row as it was.  parseAndSaveData appends the same way.    *)
(* (The backend does not raise.)                                           *)
C13_AppendsContiguousBlock ==
    /\ (IsSaveFrom /\ BackendQuiet /\ IsSuccess(storeCall.arg)) =>
           LET cs == storeCall.arg.value
           IN  /\ storeCall.out = Success(MySheet("SJCityLib", storeCall.name))
               /\ OtherSheetsKept
               /\ Len(cs) = 0 => sheets = storeCall.before
               /\ AppendedBlock([i \in 1..Len(cs) |->
                                    << cs[i].timestamp, cs[i].floor,
                                       cs[i].location, cs[i].status >>])
    /\ (storeCall.op = "parseAndSaveData" /\ BackendQuiet) =>
           LET infos == parseTrafficFromHtmlContent(storeCall.arg.content)
           IN  /\ OtherSheetsKept
               /\ Len(RowsAfter) = Len(RowsBefore) + Len(infos)
               /\ \A i \in 1..Len(RowsBefore) : RowsAfter[i] = RowsBefore[i]
               /\ \A i \in 1..Len(infos) :
                      SubSeq(RowsAfter[Len(RowsBefore) + i], 2, 4) =
                          << infos[i].floor, infos[i].location,
                             infos[i].status >>

C13_Witness ==
    /\ IsSaveFrom
    /\ BackendQuiet
    /\ IsSuccess(storeCall.arg)
    /\ Len(storeCall.arg.value) = 2
    /\ Len(RowsBefore) = 2
    /\ RowsBefore[1] = Header
    /\ Len(RowsAfter) = 4
    /\ RowsAfter[4] = << Timestamp(2), "B1", "stacks", "smooth" >>

(* C14: saveFrom given an upstream Err returns an Err with the same error  *)
(* and writes nothing.                                                     *)
C14_UpstreamErrPropagates ==
    (IsSaveFrom /\ IsFailure(storeCall.arg)) =>
        /\ storeCall.out = Failure(storeCall.arg.error)
        /\ sheets = storeCall.before

C14_Witness ==
    /\ IsSaveFrom
    /\ storeCall.arg = Failure(<< "Response code was <code>, not 2XX.", 503 >>)
    /\ IsFailure(storeCall.out)
    /\ Len(RowsBefore) >= 2

(* The call located or created a table. *)
IsLocateTable == storeCall.op \in { "fromSheetName", "getOrCreateSheet" }

(* Rows of the sheet that are the header row. *)
HeaderCount(rows) == Cardinality({ i \in 1..Len(rows) : rows[i] = Header })

(* C15: MySheet.fromSheetName called on a spreadsheet without a sheet of   *)
(* the given name creates the sheet, writes the header row into it and     *)
(* returns Ok with a handle for it.                                        *)
C15_CreatesTableWithHeader ==
    (storeCall.op = "fromSheetName"
       /\ storeCall.name \notin DOMAIN storeCall.before) =>
        /\ storeCall.name \in DOMAIN sheets
        /\ sheets[storeCall.name] = << Header >>
        /\ storeCall.out = Success(MySheet("SJCityLib", storeCall.name))

(* C16: after two locate-or-create calls in sequence for the same table    *)
(* name the spreadsheet holds the table, and the table holds the header    *)
(* row exactly once.  (The backend does not raise.)                        *)
C16_TwiceGivesOneHeader ==
    (IsLocateTable
       /\ BackendQuiet
       /\ storeCall.prev[4] = "none"
       /\ storeCall.prev[1] = storeCall.op
       /\ storeCall.prev[2] = storeCall.name) =>
        /\ storeCall.name \in DOMAIN BookAfter
        /\ HeaderCount(RowsAfter) = 1
        /\ RowsAfter[1] = Header

C16_Witness ==
    /\ storeCall.op = "fromSheetName"
    /\ storeCall.name = "Complexity"
    /\ storeCall.prev = << "fromSheetName", "Complexity", 1, "none" >>
    /\ BackendQuiet
    /\ storeCall.before["Complexity"] = << >>
    /\ sheets["Complexity"] = << Header >>

(* C17: a sheet that holds a reading row has the header row as its first   *)
(* row, and rows are appended only to a sheet whose first row is the       *)
(* header.                                                                 *)
C17_HeaderBeforeAppend ==
    /\ \A n \in DOMAIN sheets :
           DataRows(sheets[n]) # << >> => sheets[n][1] = Header
    /\ \A n \in DOMAIN libSheets :
           DataRows(libSheets[n]) # << >> => libSheets[n][1] = Header
    /\ (storeCall.op \in { "saveFrom", "parseAndSaveData" }
          /\ BookAfter # storeCall.before) =>
           /\ RowsBefore # << >>
           /\ RowsBefore[1] = Header
    /\ handle # "" =>
           /\ handle \in DOMAIN sheets
           /\ sheets[handle] # << >>
           /\ sheets[handle][1] = Header
    /\ libHandle # "" =>
           /\ libHandle \in DOMAIN libSheets
           /\ libSheets[libHandle] # << >>
           /\ libSheets[libHandle][1] = Header

C17_Witness ==
    /\ storeCall.op = "saveFrom"
    /\ storeCall.name = "Complexity"
    /\ storeCall.before["Complexity"] = << Header >>
    /\ Len(sheets["Complexity"]) = 3
    /\ storeCall.prev[1] = "fromSheetName"

(* C18: a locate-or-create call removes "Sheet1" only when the table it    *)
(* was called for is another sheet and is present; it never leaves the     *)
(* spreadsheet without a sheet and never removes the table it was called   *)
(* for.                                                                    *)
C18_PlaceholderDeletedSafely ==
    IsLocateTable =>
        /\ DOMAIN BookAfter # { }
        /\ storeCall.name \in DOMAIN storeCall.before =>
               storeCall.name \in DOMAIN BookAfter
        /\ \A n \in DOMAIN storeCall.before \ DOMAIN BookAfter :
               /\ n = "Sheet1"
               /\ storeCall.name # "Sheet1"
               /\ storeCall.name \in DOMAIN BookAfter

C18_Witness ==
    /\ storeCall.op = "fromSheetName"
    /\ storeCall.name = "Complexity"
    /\ "Sheet1" \in DOMAIN storeCall.before
    /\ DOMAIN sheets = { "Complexity" }

(* The call located or created the spreadsheet. *)
IsLocateContainer ==
    storeCall.op \in { "fromFileName", "getOrCreateSpreadsheet" }

(* C19: once a spreadsheet of the name exists at the searched location, a  *)
(* locate-or-create call creates none and returns a handle to the existing *)
(* one; a call after the creating call finds the spreadsheet created.      *)
(* (The backend does not raise.)                                           *)
C19_ContainerIdempotent ==
    /\ ssCount <= 1
    /\ libCount <= 1
    /\ (IsLocateContainer /\ BackendQuiet) =>
           /\ CountAfter = 1
           /\ storeCall.op = "fromFileName" =>
                  storeCall.out = Success(MySheet("SJCityLib", ""))
           /\ storeCall.op = "getOrCreateSpreadsheet" =>
                  storeCall.out = "SJLib"
           /\ storeCall.count0 >= 1 =>
                  /\ CountAfter = storeCall.count0
                  /\ BookAfter = storeCall.before

C19_Witness ==
    /\ storeCall.op = "getOrCreateSpreadsheet"
    /\ storeCall.prev = << "getOrCreateSpreadsheet", "", 0, "none" >>
    /\ storeCall.count0 = 1
    /\ libCount = 1
    /\ strays = 0
    /\ ssCount = 0

----------------------------------------------------------------------------
(* The fetch *)

(* The fetch step of main has just called UrlFetchApp.fetch. *)
FetchDone == InMain /\ pc = "hasValidCode" /\ fetched # NoResult

(* C20: fromScraperAPI returns Ok of a Response holding the content text   *)
(* and status code the exchange completed with and the client's timestamp, *)
(* whatever the status code; it returns Err only when the fetch raises.    *)
C20_CompletedExchangeIsOk ==
    FetchDone =>
        IF fetched.kind = "return"
        THEN complexities =
                 Success(Response(Timestamp(runs), fetched.val.contentText,
                                  fetched.val.responseCode))
        ELSE complexities = Failure(fetched.err)

C20_Witness ==
    /\ FetchDone
    /\ fetched.kind = "return"
    /\ fetched.val.responseCode = 503
    /\ fetched.val.contentText # << >>
    /\ IsSuccess(complexities)
    /\ complexities.value.responseCode = 503

----------------------------------------------------------------------------
(* File names *)

(* C23: for every timestamp t of the form yyyy-MM-dd_HH-mm-ss and every    *)
(* status code c, the name t + "_PageContent_Code-" + c + ".html" that     *)
(* saveHtmlToDriveInFolder gives a file is parsed by                       *)
(* parseDateTimeFromFilename to exactly t.                                 *)
C23_FileNameRoundTrip ==
    /\ archived # NoResult =>
           /\ archived.timestamp = formatDate(clock.now)
           /\ Len(archived.timestamp) = Len(DateTimePattern)
           /\ MatchesAt(DateTimePattern, archived.timestamp, 1)
    /\ recovered # NoResult => recovered.val = archived.timestamp

C23_Witness ==
    /\ recovered # NoResult
    /\ clock.responseCode = 503
    /\ archived.name = "1999-12-31_23-59-59_PageContent_Code-503.html"
    /\ recovered.val = "1999-12-31_23-59-59"

----------------------------------------------------------------------------
(* Files parsed *)

IsParse == storeCall.op = "parseAndSaveData"

(* The call wrote the rows of its file below the rows the sheet held. *)
BlockWritten ==
    /\ FileRows(storeCall.arg) # << >>
    /\ OtherSheetsKept
    /\ AppendedBlock(FileRows(storeCall.arg))

(* C28: parseAndSaveData moves its file to the Done folder only after the  *)
(* rows of the file were written; when the read or the write raises, or    *)
(* the content yields no reading, the file is not moved and the sheet is   *)
(* as it was; a call leaves the sheet either as it was or with the whole   *)
(* block, and without the whole block there is no move.                    *)
C28_DoneOnlyAfterWrite ==
    IsParse =>
        /\ storeCall.out = TRUE => BlockWritten /\ storeCall.fault = "none"
        /\ (\/ storeCall.fault \in { "getFileById", "getBlob", "setValues" }
            \/ FileRows(storeCall.arg) = << >>) =>
               /\ storeCall.out = FALSE
               /\ libSheets = storeCall.before
        /\ libSheets = storeCall.before \/ BlockWritten

C28_Witness ==
    /\ IsParse
    /\ storeCall.fault = "moveTo"
    /\ BlockWritten
    /\ storeCall.out = FALSE
    /\ Len(RowsBefore) >= 2

----------------------------------------------------------------------------
(* The source folder *)

IsProcess == folderCall.op = "processHtmlFolder"

(* The file passes every check of processHtmlFolder. *)
IsValidFile(f) ==
    f.mime = MimeHtml /\ f.readable /\ IsNameValid(f) /\ IsContentValid(f)

(* The file is HTML and cannot be read, or its name holds no timestamp, or *)
(* its content yields no reading.                                          *)
IsRejectedFile(f) ==
    f.mime = MimeHtml /\ ~(f.readable /\ IsNameValid(f) /\ IsContentValid(f))

(* The files the loop went through: the listing, or the files before the   *)
(* one on which a call raised.                                             *)
Visited ==
    IF folderCall.caught
    THEN SubSeq(folderCall.listing, 1, folderCall.fault.index - 1)
    ELSE folderCall.listing

IdsOf(seq) == [i \in 1..Len(seq) |-> seq[i].id]

(* C29: processHtmlFolder returns the ids of the files directly in the     *)
(* source folder that are HTML, can be read, carry a timestamp in the name *)
(* and yield a reading at least, in the order of the listing; when a call  *)
(* on the listing raises it returns, without throwing, the ids collected   *)
(* up to there: none when the listing cannot be opened, those of all valid *)
(* files when hasNext raises behind the last file.                         *)
C29_ReturnsValidIds ==
    IsProcess =>
        /\ folderCall.out = Return(IdsOf(SelectSeq(Visited, IsValidFile)))
        /\ \A i \in 1..Len(folderCall.listing) :
               folderCall.listing[i].parent = "source"
        /\ ~folderCall.caught => Visited = folderCall.listing
        /\ folderCall.fault.call # "none" => folderCall.caught
        /\ (folderCall.fault.call # "none" /\ folderCall.fault.index = 0) =>
               folderCall.out = Return(<< >>)
        /\ folderCall.fault = [call |-> "hasNext",
                               index |-> Len(folderCall.listing) + 1] =>
               folderCall.out =
                   Return(IdsOf(SelectSeq(folderCall.listing, IsValidFile)))

C29_Witness ==
    /\ IsProcess
    /\ folderCall.caught
    /\ folderCall.fault = [call |-> "next", index |-> 3]
    /\ Len(folderCall.listing) = 3
    /\ IsValidFile(folderCall.listing[2])
    /\ IsValidFile(folderCall.listing[3])
    /\ folderCall.out = Return(<< 1 >>)

(* C30: processHtmlFolder moves to the Error folder the HTML files that    *)
(* cannot be read, have no timestamp in the name or yield no reading, and  *)
(* no other file: a file that is not HTML -- the spreadsheet in the same   *)
(* folder is one -- and a valid file stay where they are.  (Of the files   *)
(* behind a call that raised, none is moved; when the listing cannot be    *)
(* opened no file is moved.)                                               *)
C30_MovesRejectedOnly ==
    IsProcess =>
        /\ folderCall.toError =
               { Visited[i].id :
                   i \in { j \in 1..Len(Visited) : IsRejectedFile(Visited[j]) } }
        /\ SpreadsheetFile.id \notin folderCall.toError
        /\ \A i \in 1..Len(files) :
               files[i].parent = IF files[i].id \in folderCall.toError
                                 THEN "Error"
                                 ELSE folderCall.before[i].parent
        /\ (\/ ~folderCall.caught
            \/ folderCall.fault.index = Len(folderCall.listing) + 1) =>
               \A i \in 1..Len(folderCall.listing) :
                   LET f == folderCall.listing[i]
                   IN  f.id \in folderCall.toError <=> IsRejectedFile(f)
        /\ (folderCall.fault.call # "none" /\ folderCall.fault.index = 0) =>
               folderCall.toError = { }

C30_Witness ==
    /\ IsProcess
    /\ ~folderCall.caught
    /\ Len(folderCall.listing) = 3
    /\ folderCall.listing[1] = SpreadsheetFile
    /\ folderCall.listing[2].mime = "text/plain"
    /\ ~folderCall.listing[3].readable
    /\ folderCall.toError = { 2 }
    /\ files[1].parent = "source"
    /\ files[2].parent = "Error"

(* Rows of the sheet that carry the timestamp of a file. *)
RowsOfFile(f) ==
    IF "Complexity" \in DOMAIN libSheets
    THEN SelectSeq(libSheets["Complexity"],
                   LAMBDA row : row[1] = Timestamp(f.id))
    ELSE << >>

(* The reading rows of a book. *)
ReadingRows(book) ==
    IF "Complexity" \in DOMAIN book
    THEN DataRows(book["Complexity"])
    ELSE << >>

(* The run of main has listed the source folder. *)
Listed == folderCall.op \in { "processHtmlFolder", "parseAndSaveData", "sort" }

(* C26: over runs of main in which no backend call raises, the readings of *)
(* a file are appended at most once; a file is in the Done folder exactly  *)
(* when its rows were written, a file in the Error folder has no row; a    *)
(* run that lists no file an earlier run has not listed leaves the reading *)
(* rows as they were.                                                      *)
C26_AppendedAtMostOnce ==
    ~raised =>
        /\ \A i \in 1..Len(files) :
               /\ appended[i] <= 1
               /\ Len(RowsOfFile(files[i])) = appended[i] * Len(FileRows(files[i]))
               /\ files[i].parent = "Done" <=> appended[i] = 1
               /\ files[i].parent = "Error" => RowsOfFile(files[i]) = << >>
        /\ (Listed /\ ~passNew) =>
               ReadingRows(libSheets) = ReadingRows(libSheets0)

C26_Witness ==
    /\ ~raised
    /\ passes = 2
    /\ folderCall.op = "sort"
    /\ ~passNew
    /\ Len(files) = 2
    /\ files[1].parent = "Error"
    /\ files[2].parent = "Done"
    /\ appended = << 0, 1 >>
    /\ Len(ReadingRows(libSheets)) = 2
    /\ ReadingRows(libSheets0) = ReadingRows(libSheets)

----------------------------------------------------------------------------
(* Writers *)

(* The rows of the sheet where the block was written are the block. *)
BlockIntact(block) ==
    /\ block.row + Len(block.rowsToAdd) - 1 <= Len(table)
    /\ \A i \in 1..Len(block.rowsToAdd) :
           table[block.row + i - 1] = block.rowsToAdd[i]

(* Two blocks were written after the same last row was read. *)
SameLastRow(i, j) == i < j /\ written[i].row = written[j].row

(* C24: nothing keeps the calls of two invocations apart.  When two        *)
(* invocations read the same last row, the block written second replaces   *)
(* rows of the block written first, which is no longer in the sheet as it  *)
(* was written; when no invocation starts while another runs, every block  *)
(* written is in the sheet, row for row, where it was written.             *)
C24_OverlapCorruptsElseIntact ==
    /\ \A i, j \in 1..Len(written) :
           SameLastRow(i, j) => overlapped /\ ~BlockIntact(written[i])
    /\ ~overlapped => \A i \in 1..Len(written) : BlockIntact(written[i])

C24_Witness ==
    /\ overlapped
    /\ Len(written) = 2
    /\ SameLastRow(1, 2)
    /\ written[1].writer # written[2].writer
    /\ ~BlockIntact(written[1])
    /\ BlockIntact(written[2])
    /\ Len(table) < written[1].row + Len(written[1].rowsToAdd)
                        + Len(written[2].rowsToAdd)

----------------------------------------------------------------------------
(* Backend faults *)

(* The backend call chosen to raise was reached by the call. *)
FaultRaised ==
    /\ storeCall.op # "none"
    /\ \/ /\ storeCall.op = "fromFileName"
          /\ \/ storeCall.fault = "getFilesByName"
             \/ storeCall.fault = "openById" /\ storeCall.count0 > 0
             \/ storeCall.fault = "create" /\ storeCall.count0 = 0
       \/ /\ storeCall.op = "fromSheetName"
          /\ \/ storeCall.fault = "getSheetByName"
             \/ /\ storeCall.fault = "insertSheet"
                /\ storeCall.name \notin DOMAIN storeCall.before
             \/ /\ storeCall.name \in DOMAIN storeCall.before
                /\ \/ storeCall.fault = "getLastRow"
                   \/ storeCall.fault = "appendRow" /\ RowsBefore = << >>
                   \/ /\ storeCall.fault = "getSheetByName#2"
                      /\ storeCall.name # "Sheet1"
                   \/ /\ storeCall.fault = "deleteSheet"
                      /\ storeCall.name # "Sheet1"
                      /\ "Sheet1" \in DOMAIN storeCall.before
       \/ /\ storeCall.op = "saveFrom"
          /\ storeCall.fault \in SaveFaults
          /\ IsSuccess(storeCall.arg)
          /\ storeCall.arg.value # << >>

(* The sub-step named by the message of a caught fault. *)
StepOf(op) ==
    CASE op = "fromFileName" -> "Error in 'getFileId'"
      [] op = "fromSheetName" -> "Error in 'getSheet'"
      [] op = "saveFrom" -> "Error in 'saveFrom'"

(* C22: a backend call that raises while the container is located or       *)
(* created, the table is located or created, or rows are appended is       *)
(* caught: the call returns a Failure whose message names the sub-step     *)
(* and the exception; every call of the three returns a Success or a       *)
(* Failure, and a raise on the way to the container or to the block write  *)
(* leaves the store as it was.                                             *)
C22_BackendFaultsCaught ==
    /\ storeCall.op \in { "fromFileName", "fromSheetName", "saveFrom" } =>
           /\ "tag" \in DOMAIN storeCall.out
           /\ IsSuccess(storeCall.out) \/ IsFailure(storeCall.out)
    /\ FaultRaised =>
           /\ storeCall.out = Failure(<< StepOf(storeCall.op),
                                         ErrorOf(storeCall.fault) >>)
           /\ storeCall.op \in { "fromFileName", "saveFrom" } =>
                  /\ sheets = storeCall.before
                  /\ ssCount = storeCall.count0

C22_Witness ==
    /\ FaultRaised
    /\ storeCall.op = "saveFrom"
    /\ storeCall.fault = "setValues"
    /\ storeCall.prev[1] = "fromSheetName"
    /\ RowsBefore = << Header >>
    /\ sheets = storeCall.before
    /\ storeCall.out = Failure(<< "Error in 'saveFrom'", "setValues" >>)

----------------------------------------------------------------------------
(* Requests and reports of a run *)

(* The extraction chain of main has ended with a Failure and the run is    *)
(* past MySheet.fromNames.                                                 *)
ChainFailed ==
    /\ InMain
    /\ pc \in { "saveFrom", "report", "return" }
    /\ complexities # NoResult
    /\ IsFailure(complexities)

(* C27: in a run of main whose extraction chain yields a Failure,          *)
(* MySheet.fromNames still runs; the run may create the spreadsheet,       *)
(* insert the "Complexity" sheet, write the header row into an empty sheet *)
(* and delete "Sheet1", and does nothing else to the store: every sheet    *)
(* holds the reading rows it held when the run started, a new sheet none.  *)
C27_ErrRunOnlyPreparesStore ==
    ChainFailed =>
        /\ mySheetResult # NoResult
        /\ DOMAIN sheets \ DOMAIN sheets0 \subseteq { "Sheet1", "Complexity" }
        /\ DOMAIN sheets0 \ DOMAIN sheets \subseteq { "Sheet1" }
        /\ \A n \in DOMAIN sheets :
               IF n \in DOMAIN sheets0
               THEN \/ sheets[n] = sheets0[n]
                    \/ sheets0[n] = << >> /\ sheets[n] = << Header >>
               ELSE sheets[n] = << >>

C27_Witness ==
    /\ ChainFailed
    /\ MainGateRejected
    /\ pc = "return"
    /\ IsSuccess(mySheetResult)
    /\ IsFailure(saveResult)
    /\ "Complexity" \in DOMAIN sheets0
    /\ sheets0["Complexity"] = << >>
    /\ sheets = [n \in { "Complexity" } |-> << Header >>]

(* main has logged its report and is about to return. *)
Reported == InMain /\ pc = "return" /\ ~uncaught

(* C25: once main has read the key it lets no exception escape; a run that *)
(* ends with a Failure -- of the key, the time window, the fetch, the      *)
(* status code, the extraction or the store -- logs the operation failure  *)
(* exactly once and no success line, and the chain's or the store's        *)
(* Failure is the run's; a run whose steps all succeeded logs the success  *)
(* line first and no failure.  (A raise of the property store while the    *)
(* key is read is none of these failures: it leaves main before the chain  *)
(* starts.)                                                                *)
C25_OneTerminalReport ==
    /\ (InMain /\ uncaught) => (steps = << >> /\ pc = "return")
    /\ Reported =>
           /\ IsSuccess(saveResult) \/ IsFailure(saveResult)
           /\ (IsFailure(complexities) \/ IsFailure(mySheetResult)) =>
                  IsFailure(saveResult)
           /\ IsFailure(saveResult) =>
                  /\ Occurrences(log, "Operation failed") = 1
                  /\ Occurrences(log, "Operation Succeeded (including save):") = 0
           /\ IsSuccess(saveResult) =>
                  /\ IsSuccess(complexities) /\ IsSuccess(mySheetResult)
                  /\ log[1] = "Operation Succeeded (including save):"
                  /\ Len(log) = 1 + Len(complexities.value)
                  /\ Occurrences(log, "Operation failed") = 0

C25_Witness ==
    /\ Reported
    /\ IsSuccess(complexities)
    /\ IsSuccess(mySheetResult)
    /\ saveResult = Failure(<< "Error in 'saveFrom'", "setValues" >>)
    /\ log = << "Operation failed" >>


(* The run's fetch raised: the chain holds the exception. *)
TransportFailed ==
    /\ InMain
    /\ complexities # NoResult
    /\ IsFailure(complexities)
    /\ complexities.error = << "Exception: request failed" >>

(* C21: an invocation issues at most one outbound HTTP request; after a    *)
(* transport failure or a non-2xx response the run holds that Err and has  *)
(* made exactly one request.                                               *)
C21_AtMostOneRequest ==
    /\ httpCalls <= 1
    /\ TransportFailed => httpCalls = 1
    /\ (Non2xxRun /\ StepsBehind >= 4) =>
           /\ httpCalls = 1
           /\ complexities =
                  Failure(<< "Response code was <code>, not 2XX.", statusCode >>)

C21_Witness ==
    /\ TransportFailed
    /\ pc = "return"
    /\ httpCalls = 1
    /\ log = << "Operation failed" >>

====
